---- MODULE Spec2Model ----
(***************************************************************************)
(* A model of the clinic dashboard's data pipeline and record keeping:     *)
(*   - load_data (src/src/data_loader.py): the loader/normalizer,          *)
(*   - render_sidebar (src/src/sidebar.py): the filter engine,             *)
(*   - the appointments and costs tables (src/src/data_loader.py).         *)
(*                                                                         *)
(* A spreadsheet cell is a record [k, v, d, s]:                            *)
(*   k = "num"    a number v/d (d = 1 for the integers read from a sheet), *)
(*   k = "nan"    a missing cell (NaN / NaT / None),                       *)
(*   k = "txt"    text s that parses neither as a number nor as a date,    *)
(*   k = "numtxt" text s that pandas.to_numeric parses as the number v,    *)
(*   k = "date"   a timestamp, v = hours since the epoch of the model,     *)
(*   k = "datetxt" text s that pandas.to_datetime parses as the timestamp  *)
(*                v,                                                       *)
(*   k = "str"    a string s produced by the loader (astype(str)).         *)
(* Floating point arithmetic is modelled exactly, by rationals.            *)
(***************************************************************************)
EXTENDS Integers, Sequences, FiniteSets, TLC

VARIABLES
  source,      \* load_data: the workbook on disk (the input)
  loaded,      \* load_data: its outcome, NotRun before the call
  table,       \* render_sidebar: the normalized table it is given (df_data)
  widgets,     \* render_sidebar: the values of the sidebar's widgets
  rendered,    \* render_sidebar: its outcome, NotRun before the call
  appointments,\* the appointments table: AppointmentID -> row
  clock,       \* the number of calls made so far; datetime.now() is read off it
  nextId,      \* the number of appointment ids handed out so far
  apptCall,    \* the last call on the appointments table, NotRun before any
  costs,       \* the costs table: its rows, in the order of their ids
  costCall,    \* the last call on the costs table, NotRun before any
  cache,       \* st.cache_data: the entry of load_data, NoEntry when none
  seconds,     \* st.cache_data: the time, in seconds
  goals,       \* the goals table: id -> row
  goalCall,    \* the last call on the goals table, NotRun before any
  schema,      \* the columns of the appointments table, in their order
  schema0,     \* the columns it had before any update_schema ran
  procs        \* update_schema: the state of each process running it

vars == <<source, loaded, table, widgets, rendered, appointments, clock,
          nextId, apptCall, costs, costCall, cache, seconds, goals, goalCall,
          schema, schema0, procs>>

loadVars == <<source, loaded>>
filterVars == <<table, widgets, rendered>>
apptVars == <<appointments, clock, nextId, apptCall>>
costVars == <<costs, costCall>>
cacheVars == <<cache, seconds>>
goalVars == <<goals, goalCall>>
schemaVars == <<schema, schema0, procs>>

NotRun == [status |-> "notrun"]

\* The cache of load_data holds no entry.
NoEntry == [full |-> FALSE]

(***************************************************************************)
(* Cells                                                                   *)
(***************************************************************************)
Abs(n) == IF n < 0 THEN -n ELSE n

RECURSIVE Gcd(_, _)
Gcd(a, b) == IF b = 0 THEN a ELSE Gcd(b, a % b)

Num(n) == [k |-> "num", v |-> n, d |-> 1, s |-> ""]
NaN == [k |-> "nan", v |-> 0, d |-> 1, s |-> ""]
Txt(x) == [k |-> "txt", v |-> 0, d |-> 1, s |-> x]
NumTxt(x, n) == [k |-> "numtxt", v |-> n, d |-> 1, s |-> x]
Str(x) == [k |-> "str", v |-> 0, d |-> 1, s |-> x]
Stamp(day, hour) == [k |-> "date", v |-> day * 24 + hour, d |-> 1, s |-> ""]
DateTxt(x, day, hour) == [k |-> "datetxt", v |-> day * 24 + hour, d |-> 1, s |-> x]

\* The rational n/d (d > 0) in lowest terms.
Rat(n, d) ==
  LET g == Gcd(Abs(n), d)
  IN  [k |-> "num", v |-> n \div g, d |-> d \div g, s |-> ""]

IsNum(c) == c.k = "num"
IsNull(c) == c.k = "nan"

\* Arithmetic of number cells; NaN propagates.
CellAdd(a, b) ==
  IF IsNum(a) /\ IsNum(b) THEN Rat(a.v * b.d + b.v * a.d, a.d * b.d) ELSE NaN

CellSub(a, b) ==
  IF IsNum(a) /\ IsNum(b) THEN Rat(a.v * b.d - b.v * a.d, a.d * b.d) ELSE NaN

\* (a / b) * 100 for b > 0.
CellPct(a, b) ==
  IF IsNum(a) /\ IsNum(b) /\ b.v > 0 THEN Rat(a.v * b.d * 100, a.d * b.v) ELSE NaN

(***************************************************************************)
(* Tables (pandas DataFrames)                                              *)
(*                                                                         *)
(* A table is [cols, rows, index, dtype]: the set of column names, the     *)
(* rows (each a function from cols to cells), the index label of each row  *)
(* and the dtype of each column ("int", "float", "object", "datetime").    *)
(***************************************************************************)
Indices(t) == 1..Len(t.rows)

Column(t, c) == [i \in Indices(t) |-> t.rows[i][c]]

\* df[c] = cells: the column is added, or replaced when it exists.
SetCol(t, c, cells, dt) ==
  [cols  |-> t.cols \cup {c},
   rows  |-> [i \in Indices(t) |->
               [x \in t.cols \cup {c} |-> IF x = c THEN cells[i] ELSE t.rows[i][x]]],
   index |-> t.index,
   dtype |-> [x \in t.cols \cup {c} |-> IF x = c THEN dt ELSE t.dtype[x]]]

\* df[c] = F(df[c]), cell by cell.
MapCol(t, c, F(_), dt) == SetCol(t, c, [i \in Indices(t) |-> F(t.rows[i][c])], dt)

\* The positions at which a boolean mask is true, in order.
RECURSIVE KeptPositions(_, _)
KeptPositions(mask, i) ==
  IF i > Len(mask) THEN <<>>
  ELSE (IF mask[i] THEN <<i>> ELSE <<>>) \o KeptPositions(mask, i + 1)

\* df[mask]: the rows that satisfy Keep, with their index labels.
SelectRows(t, Keep(_)) ==
  LET pos == KeptPositions([i \in Indices(t) |-> Keep(t.rows[i])], 1)
  IN  [cols  |-> t.cols,
       rows  |-> [j \in 1..Len(pos) |-> t.rows[pos[j]]],
       index |-> [j \in 1..Len(pos) |-> t.index[pos[j]]],
       dtype |-> t.dtype]

\* The dtype pandas infers for a column read from the sheet.
InferDtype(cells) ==
  IF \A i \in DOMAIN cells : cells[i].k = "num" THEN "int"
  ELSE IF \A i \in DOMAIN cells : cells[i].k \in {"num", "nan"} THEN "float"
  ELSE IF \A i \in DOMAIN cells : cells[i].k \in {"date", "nan"} THEN "datetime"
  ELSE "object"

IsNumericDtype(dt) == dt \in {"int", "float"}

\* str(n) for the integers of the model.
Digit(n) == CASE n = 0 -> "0" [] n = 1 -> "1" [] n = 2 -> "2" [] n = 3 -> "3"
              [] n = 4 -> "4" [] n = 5 -> "5" [] n = 6 -> "6" [] n = 7 -> "7"
              [] n = 8 -> "8" [] n = 9 -> "9"

RECURSIVE NatStr(_)
NatStr(n) == IF n < 10 THEN Digit(n) ELSE NatStr(n \div 10) \o Digit(n % 10)

IntStr(n) == IF n < 0 THEN "-" \o NatStr(-n) ELSE NatStr(n)

\* Series.astype(str) of one cell of a column of dtype dt.
AsStr(c, dt) ==
  CASE c.k = "num" -> Str(IF dt = "float" THEN IntStr(c.v) \o ".0" ELSE IntStr(c.v))
    [] c.k = "nan" -> Str("nan")
    [] OTHER -> Str(c.s)

(***************************************************************************)
(* load_data                                                               *)
(*                                                                         *)
(* The state of one call is [status, t, warnings, errors]: status is "ok"  *)
(* while the call runs (and when it returns t), "stopped" after st.stop()  *)
(* and "exception" after an exception nothing catches; warnings and errors *)
(* are the st.warning and st.error messages shown, named by their subject. *)
(***************************************************************************)
Warn(L, w) == [L EXCEPT !.warnings = @ \cup {w}]

Stop(L, e) == [L EXCEPT !.status = "stopped", !.errors = @ \cup {e}]

Raise(L, e) == [L EXCEPT !.status = "exception", !.raised = e]

WhileOk(L, F(_)) == IF L.status = "ok" THEN F(L) ELSE L

\* pd.ExcelFile / pd.read_excel: any failure is shown and stops the script.
ReadExcel(src) ==
  LET n == Len(src.rows)
      t == [cols  |-> src.cols,
            rows  |-> src.rows,
            index |-> [i \in 1..n |-> i - 1],
            dtype |-> [c \in src.cols |->
                        InferDtype([i \in 1..n |-> src.rows[i][c]])]]
      L == [status |-> "ok", t |-> t, warnings |-> {}, errors |-> {}, raised |-> ""]
  IN  IF src.readable THEN L ELSE Stop(L, "load")

\* pd.to_datetime(errors='coerce') of one cell: a number is a count of
\* nanoseconds since the epoch, anything unparseable becomes NaT.
ToDatetime(c) ==
  CASE c.k = "date" -> c
    [] c.k = "datetxt" -> [k |-> "date", v |-> c.v, d |-> 1, s |-> ""]
    [] c.k = "num" -> Stamp(0, 0)
    [] OTHER -> NaN

\* ConvertDate without the dropna: the rows whose date fails to parse stay.
ConvertDateKeepsRows(L) ==
  IF "date" \notin L.t.cols THEN Raise(L, "KeyError: date")
  ELSE [L EXCEPT !.t = MapCol(L.t, "date", ToDatetime, "datetime")]

\* df["date"] = pd.to_datetime(...); df.dropna(subset=["date"], inplace=True)
ConvertDate(L) ==
  IF "date" \notin L.t.cols THEN Raise(L, "KeyError: date")
  ELSE LET t1 == MapCol(L.t, "date", ToDatetime, "datetime")
       IN  [L EXCEPT !.t = SelectRows(t1, LAMBDA r : ~IsNull(r["date"]))]

FillNa(c, fill) == IF IsNull(c) THEN fill ELSE c

\* numeric_cols = df.select_dtypes(include=np.number).columns
\* df[numeric_cols] = df[numeric_cols].fillna(0)
FillNumeric(L) ==
  LET t == L.t
  IN  [L EXCEPT !.t.rows =
         [i \in Indices(t) |->
           [c \in t.cols |->
             IF IsNumericDtype(t.dtype[c]) THEN FillNa(t.rows[i][c], Num(0))
             ELSE t.rows[i][c]]]]

\* pd.to_numeric(errors='coerce') of one cell.
ToNumeric(c) ==
  CASE c.k = "num" -> c
    [] c.k = "numtxt" -> Num(c.v)
    [] OTHER -> NaN

\* The dtype of pd.to_numeric(col, errors='coerce').fillna(0).
NumericDtype(cells) ==
  IF \A i \in DOMAIN cells : cells[i].k = "num" THEN "int" ELSE "float"

commission_cols ==
  <<"doctor comission payed", "com to be payed", "T.doc.com", "com pay", "gross income">>

\* EnsureNumeric without the fillna(0) after pd.to_numeric.
EnsureNumericNoFill(L, col) ==
  IF col \notin L.t.cols
  THEN [Warn(L, col) EXCEPT
          !.t = SetCol(L.t, col, [i \in Indices(L.t) |-> Num(0)], "int")]
  ELSE [L EXCEPT !.t = MapCol(L.t, col, ToNumeric, NumericDtype(Column(L.t, col)))]

\* One turn of the loop over commission_cols.
EnsureNumeric(L, col) ==
  IF col \notin L.t.cols
  THEN [Warn(L, col) EXCEPT
          !.t = SetCol(L.t, col, [i \in Indices(L.t) |-> Num(0)], "int")]
  ELSE [L EXCEPT
          !.t = MapCol(L.t, col, LAMBDA c : FillNa(ToNumeric(c), Num(0)),
                       NumericDtype(Column(L.t, col)))]

RECURSIVE EnsureNumericFrom(_, _)
EnsureNumericFrom(L, i) ==
  IF i > Len(commission_cols) THEN L
  ELSE EnsureNumericFrom(EnsureNumeric(L, commission_cols[i]), i + 1)

CommissionColumns(L) == EnsureNumericFrom(L, 1)

\* df[new] = df[old]
CopyCol(t, new, old) == SetCol(t, new, Column(t, old), t.dtype[old])

DeriveCommissions(L) ==
  [L EXCEPT !.t =
     CopyCol(CopyCol(CopyCol(CopyCol(L.t,
       "commission_paid_daily", "doctor comission payed"),
       "commission_paid_monthly", "com to be payed"),
       "total_commission", "T.doc.com"),
       "advertising_commission", "com pay")]

\* ProfitCalculation with the advertising commission left out of the profit.
ProfitWithoutAdvertising(L) ==
  LET t == L.t
  IN  IF "profit" \notin t.cols
      THEN LET t1 == SetCol(t, "total_deductions",
                       [i \in Indices(t) |->
                          CellAdd(t.rows[i]["total_commission"],
                                  t.rows[i]["advertising_commission"])], "float")
               t2 == SetCol(t1, "profit",
                       [i \in Indices(t1) |->
                          CellSub(t1.rows[i]["gross income"],
                                  t1.rows[i]["total_commission"])], "float")
           IN  [L EXCEPT !.t = t2]
      ELSE [L EXCEPT !.t = MapCol(t, "profit",
                                  LAMBDA c : FillNa(ToNumeric(c), Num(0)),
                                  NumericDtype(Column(t, "profit")))]

\* ProfitCalculation that derives the profit whether or not the source has one.
ProfitAlwaysDerived(L) ==
  LET t == L.t
      t1 == SetCol(t, "total_deductions",
              [i \in Indices(t) |->
                 CellAdd(t.rows[i]["total_commission"],
                         t.rows[i]["advertising_commission"])], "float")
      t2 == SetCol(t1, "profit",
              [i \in Indices(t1) |->
                 CellSub(t1.rows[i]["gross income"],
                         t1.rows[i]["total_deductions"])], "float")
  IN  [L EXCEPT !.t = t2]

\* if 'profit' not in df.columns: total_deductions, profit are derived;
\* else profit is coerced to a number.
ProfitCalculation(L) ==
  LET t == L.t
  IN  IF "profit" \notin t.cols
      THEN LET t1 == SetCol(t, "total_deductions",
                       [i \in Indices(t) |->
                          CellAdd(t.rows[i]["total_commission"],
                                  t.rows[i]["advertising_commission"])], "float")
               t2 == SetCol(t1, "profit",
                       [i \in Indices(t1) |->
                          CellSub(t1.rows[i]["gross income"],
                                  t1.rows[i]["total_deductions"])], "float")
           IN  [L EXCEPT !.t = t2]
      ELSE [L EXCEPT !.t = MapCol(t, "profit",
                                  LAMBDA c : FillNa(ToNumeric(c), Num(0)),
                                  NumericDtype(Column(t, "profit")))]

\* MarginOf with the guard gross != 0 in place of gross > 0.
MarginOfNonZero(profit, gross) ==
  IF IsNum(gross) /\ IsNum(profit) /\ gross.v # 0
  THEN Rat((IF gross.v < 0 THEN -1 ELSE 1) * profit.v * gross.d * 100,
           profit.d * Abs(gross.v))
  ELSE Num(0)

\* np.where(gross > 0, (profit / gross) * 100, 0), for one row.
MarginOf(profit, gross) ==
  IF IsNum(gross) /\ gross.v > 0 THEN CellPct(profit, gross) ELSE Num(0)

ProfitMargin(L) ==
  LET t == L.t
  IN  [L EXCEPT !.t = SetCol(t, "profit_margin_pct",
         [i \in Indices(t) |-> MarginOf(t.rows[i]["profit"], t.rows[i]["gross income"])],
         "float")]

\* df["hour"] = df["date"].dt.hour.  The other calendar parts (month, day,
\* week, ...) are derived from "date" alone, in the same way, and no property
\* checked here reads them.
DateParts(L) ==
  LET t == L.t
  IN  [L EXCEPT !.t = SetCol(t, "hour",
         [i \in Indices(t) |-> Num(t.rows[i]["date"].v % 24)], "int")]

\* series > 0 raises TypeError when a cell is neither a number nor missing.
ComparisonRaises(cells) == \E i \in DOMAIN cells : cells[i].k \notin {"num", "nan"}

\* One cell of series > 0: a missing cell compares False.
Positive(c) == IsNum(c) /\ c.v > 0

\* PaymentMethodOf with the visa amount looked at first.
PaymentMethodVisaFirst(cash, visa) ==
  IF Positive(visa) THEN Str("Visa")
  ELSE IF Positive(cash) THEN Str("Cash")
  ELSE Str("Other")

\* np.where(cash > 0, "Cash", np.where(visa > 0, "Visa", "Other")), for one row.
PaymentMethodOf(cash, visa) ==
  IF Positive(cash) THEN Str("Cash")
  ELSE IF Positive(visa) THEN Str("Visa")
  ELSE Str("Other")

PaymentMethod(L) ==
  LET t == L.t
  IN  IF "cash pay" \notin t.cols THEN Raise(L, "KeyError: cash pay")
      ELSE IF ComparisonRaises(Column(t, "cash pay")) THEN Raise(L, "TypeError: cash pay")
      ELSE IF "visa pay" \notin t.cols THEN Raise(L, "KeyError: visa pay")
      ELSE IF ComparisonRaises(Column(t, "visa pay")) THEN Raise(L, "TypeError: visa pay")
      ELSE [L EXCEPT !.t = SetCol(t, "payment_method",
              [i \in Indices(t) |->
                 PaymentMethodOf(t.rows[i]["cash pay"], t.rows[i]["visa pay"])],
              "object")]

\* EnsureCategorical that warns of a missing column without creating it.
EnsureCategoricalOnlyWarns(L, col) ==
  IF col \notin L.t.cols
  THEN Warn(L, col)
  ELSE [L EXCEPT
          !.t = MapCol(L.t, col,
                       LAMBDA c : AsStr(FillNa(c, Txt("Unknown")), L.t.dtype[col]),
                       "object")]

\* if col not in df.columns: warn, df[col] = "Unknown"
\* else: df[col] = df[col].fillna("Unknown").astype(str)
EnsureCategorical(L, col) ==
  IF col \notin L.t.cols
  THEN [Warn(L, col) EXCEPT
          !.t = SetCol(L.t, col, [i \in Indices(L.t) |-> Str("Unknown")], "object")]
  ELSE [L EXCEPT
          !.t = MapCol(L.t, col,
                       LAMBDA c : AsStr(FillNa(c, Txt("Unknown")), L.t.dtype[col]),
                       "object")]

CategoricalColumns(L) ==
  EnsureCategorical(EnsureCategorical(EnsureCategorical(L, "visit type"), "Doctor"),
                    "Patient")

\* np.random.seed(42); np.random.randint(15, 60, size=n): the first values
\* the seeded generator gives.
SeededDurations == <<53, 43, 29, 57, 22, 35>>

VisitDuration(L) ==
  LET t == L.t
  IN  IF "visit_duration_mins" \in t.cols THEN L
      ELSE [L EXCEPT !.t = SetCol(t, "visit_duration_mins",
              [i \in Indices(t) |-> Num(SeededDurations[i])], "int")]

essential_cols ==
  <<"date", "gross income", "profit", "Doctor", "Patient", "visit type", "id">>

\* CheckEssential that goes on when an essential column is missing.
CheckEssentialNeverStops(L, col) ==
  IF col \in L.t.cols THEN L
  ELSE IF col = "id"
  THEN [Warn(L, "id") EXCEPT
          !.t = SetCol(L.t, "id",
                       [i \in Indices(L.t) |-> Str(IntStr(L.t.index[i]))], "object")]
  ELSE L

\* One turn of the loop over essential_cols.
CheckEssential(L, col) ==
  IF col \in L.t.cols THEN L
  ELSE IF col = "id"
  THEN [Warn(L, "id") EXCEPT
          !.t = SetCol(L.t, "id",
                       [i \in Indices(L.t) |-> Str(IntStr(L.t.index[i]))], "object")]
  ELSE IF col # "profit" THEN Stop(L, col)
  ELSE L

RECURSIVE CheckEssentialFrom(_, _)
CheckEssentialFrom(L, i) ==
  IF i > Len(essential_cols) \/ L.status # "ok" THEN L
  ELSE CheckEssentialFrom(CheckEssential(L, essential_cols[i]), i + 1)

FinalChecks(L) == CheckEssentialFrom(L, 1)

\* if 'id' in df.columns and is_numeric_dtype(df['id']): df['id'].astype(str)
IdToString(L) ==
  LET t == L.t
  IN  IF "id" \in t.cols /\ IsNumericDtype(t.dtype["id"])
      THEN [L EXCEPT !.t = MapCol(t, "id", LAMBDA c : AsStr(c, t.dtype["id"]), "object")]
      ELSE L

\* load_data up to its final checks: the call as it reaches them, or as the
\* statement that ended it before them left it.
Preprocessed(src) ==
  WhileOk(WhileOk(WhileOk(WhileOk(WhileOk(WhileOk(WhileOk(WhileOk(WhileOk(WhileOk(
    ReadExcel(src),
    ConvertDate), FillNumeric), CommissionColumns), DeriveCommissions),
    ProfitCalculation), ProfitMargin), DateParts), PaymentMethod),
    CategoricalColumns), VisitDuration)

load_data(src) == WhileOk(WhileOk(Preprocessed(src), FinalChecks), IdToString)

(***************************************************************************)
(* The workbooks load_data is run on                                       *)
(***************************************************************************)
\* The most rows a workbook of the model has.
MaxRows == 2

\* The columns the input file is expected to have.
ExpectedCols ==
  {"date", "gross income", "doctor comission payed", "com to be payed", "T.doc.com",
   "com pay", "cash pay", "visa pay", "visit type", "Doctor", "Patient", "id"}

\* A well-formed row: the example visit of the specification.
BaseRow ==
  [c \in ExpectedCols \cup {"profit", "visit_duration_mins"} |->
    CASE c = "date" -> Stamp(5, 9)
      [] c = "gross income" -> Num(1000)
      [] c = "doctor comission payed" -> Num(150)
      [] c = "com to be payed" -> Num(50)
      [] c = "T.doc.com" -> Num(200)
      [] c = "com pay" -> Num(50)
      [] c = "cash pay" -> Num(1000)
      [] c = "visa pay" -> Num(0)
      [] c = "visit type" -> Txt("Regular")
      [] c = "Doctor" -> Txt("Dr A")
      [] c = "Patient" -> Txt("P1")
      [] c = "id" -> Num(7)
      [] c = "profit" -> Num(750)
      [] c = "visit_duration_mins" -> Num(30)]

With(row, c, x) == [row EXCEPT ![c] = x]

\* Rows that differ from BaseRow in the money columns.
MoneyRows ==
  { With(BaseRow, "gross income", g) : g \in {Num(0), Num(-100), NaN, Txt("n/a")} }
  \cup { With(With(BaseRow, "T.doc.com", d[1]), "com pay", d[2]) :
            d \in {<<Num(200), Num(50)>>, <<Num(0), Num(0)>>, <<Txt("tbd"), NaN>>} }

\* Rows whose source profit is not the derived one, or not a number.
ProfitRows ==
  { With(BaseRow, "profit", p) :
      p \in {Num(700), Num(-50), NaN, Txt("?"), NumTxt("700", 700)} }
  \cup { With(With(BaseRow, "gross income", Num(0)), "profit", Num(700)),
         With(With(BaseRow, "gross income", Num(-100)), "profit", Num(-50)) }

\* Rows that differ from BaseRow in the payment columns.
PaymentRows ==
  { With(With(BaseRow, "cash pay", c), "visa pay", v) :
      c \in {Num(1000), Num(0), Num(-5), NaN}, v \in {Num(0), Num(500)} }
  \cup { With(BaseRow, "cash pay", Txt("x")),
         With(With(BaseRow, "cash pay", Num(0)), "visa pay", NaN) }

\* Rows with an invalid date, a missing name, a numeric patient, another id.
OtherRows ==
  { With(BaseRow, "date", Txt("soon")), With(BaseRow, "date", NaN),
    With(BaseRow, "date", DateTxt("2024-01-07 10:00", 6, 10)),
    With(BaseRow, "Doctor", NaN), With(BaseRow, "visit type", NaN),
    With(BaseRow, "Patient", Num(12)), With(BaseRow, "Patient", NaN),
    With(BaseRow, "id", Txt("a1")), With(BaseRow, "id", NaN),
    With(BaseRow, "visit_duration_mins", Num(45)),
    With(With(BaseRow, "date", Txt("soon")), "cash pay", Txt("x")) }

SourceRows == MoneyRows \cup ProfitRows \cup PaymentRows \cup OtherRows

\* The rows of the workbooks that lack an expected column.
FewRows ==
  { BaseRow, With(BaseRow, "date", Txt("soon")), With(BaseRow, "gross income", NaN) }

Restrict(row, cols) == [c \in cols |-> row[c]]

\* The distinct rows of a set, restricted to the columns cols.
RowsOver(rowset, cols) == { Restrict(r, cols) : r \in rowset }

\* The workbook of the given rows over the columns cols.
Workbook(cols, rows) == [readable |-> TRUE, cols |-> cols, rows |-> rows]

\* The row sets and columns of the workbooks: the expected columns with and
\* without a profit column, with a duration column, and with one expected
\* column missing.
SourceKinds ==
  { <<SourceRows, ExpectedCols>>, <<SourceRows, ExpectedCols \cup {"profit"}>>,
    <<FewRows, ExpectedCols \cup {"visit_duration_mins"}>> }
  \cup { <<FewRows, ExpectedCols \ {c}>> : c \in ExpectedCols }
  \cup { <<FewRows, (ExpectedCols \cup {"profit"}) \ {c}>> : c \in ExpectedCols }

\* A file that cannot be read.
Unreadable == [readable |-> FALSE, cols |-> {}, rows |-> <<>>]

(***************************************************************************)
(* The parts of the state a specification does not use stay as they are    *)
(* here.                                                                   *)
(***************************************************************************)
LoadIdle == source = Unreadable /\ loaded = NotRun

FilterIdle == table = <<>> /\ widgets = <<>> /\ rendered = NotRun

ApptIdle == appointments = <<>> /\ clock = 0 /\ nextId = 0 /\ apptCall = NotRun

CostIdle == costs = <<>> /\ costCall = NotRun

CacheIdle == cache = NoEntry /\ seconds = 0

GoalIdle == goals = <<>> /\ goalCall = NotRun

SchemaIdle == schema = <<>> /\ schema0 = <<>> /\ procs = <<>>

(***************************************************************************)
(* SpecLoad: load_data run once on each workbook of SourceKinds.           *)
(***************************************************************************)
InitLoad ==
  /\ \/ source = Unreadable
     \/ \E kind \in SourceKinds, n \in 1..MaxRows :
          \E rows \in [1..n -> RowsOver(kind[1], kind[2])] :
            source = Workbook(kind[2], rows)
  /\ loaded = NotRun
  /\ FilterIdle /\ ApptIdle /\ CostIdle /\ CacheIdle /\ GoalIdle /\ SchemaIdle

LoadData ==
  /\ loaded.status = "notrun"
  /\ loaded' = load_data(source)
  /\ UNCHANGED <<source, filterVars, apptVars, costVars, cacheVars,
                 goalVars, schemaVars>>

NextLoad == LoadData

SpecLoad == InitLoad /\ [][NextLoad]_vars

\* load_data has returned a table.
Returned == loaded.status = "ok"

\* The rows of the returned table.
OutRows == { loaded.t.rows[i] : i \in Indices(loaded.t) }

\* The number a money cell of the returned table stands for; a cell still
\* missing counts as 0 (an absent amount is 0).
Amount(c) == IF IsNum(c) THEN c.v ELSE 0

\* C3: in every row of the table load_data returns, profit_margin_pct is 0
\* when gross income <= 0 and is (profit / gross income) * 100 otherwise.
C3_ProfitMargin ==
  Returned =>
    \A r \in OutRows :
      LET g == r["gross income"]
          p == r["profit"]
          m == r["profit_margin_pct"]
      IN  /\ IsNum(g) /\ IsNum(p) /\ IsNum(m)
          /\ g.v <= 0 => m = Num(0)
          /\ g.v > 0 => m.v * p.d * g.v = p.v * g.d * 100 * m.d

\* A returned table with a row of gross income 0 and a profit of 700 (the
\* quotient would divide by zero) beside a row with a margin that is not 0.
C3_Witness ==
  /\ Returned
  /\ \E r \in OutRows : r["gross income"] = Num(0) /\ r["profit"] = Num(700)
  /\ \E r \in OutRows : r["gross income"].v > 0 /\ r["profit_margin_pct"].v # 0

\* C4: in every row of the table load_data returns, payment_method is Cash
\* whenever cash pay > 0 (whatever visa pay is), Visa when cash pay <= 0 and
\* visa pay > 0, and Other otherwise.
C4_PaymentMethod ==
  Returned =>
    \A r \in OutRows :
      LET cash == Amount(r["cash pay"])
          visa == Amount(r["visa pay"])
          pm == r["payment_method"].s
      IN  /\ pm \in {"Cash", "Visa", "Other"}
          /\ cash > 0 => pm = "Cash"
          /\ (cash <= 0 /\ visa > 0) => pm = "Visa"
          /\ (cash <= 0 /\ visa <= 0) => pm = "Other"

\* A returned table with a row paid both in cash and by card, and a row paid
\* by card alone.
C4_Witness ==
  /\ Returned
  /\ \E r \in OutRows : Amount(r["cash pay"]) > 0 /\ Amount(r["visa pay"]) > 0
  /\ \E r \in OutRows : Amount(r["cash pay"]) <= 0 /\ Amount(r["visa pay"]) > 0

\* C7: when the source has no profit column, every returned row has
\* profit = gross income - (T.doc.com + com pay); gross 1000, T.doc.com 200,
\* com pay 50 give profit 750 and a margin of 75.
C7_DerivedProfit ==
  (Returned /\ "profit" \notin source.cols) =>
    \A r \in OutRows :
      /\ IsNum(r["profit"]) /\ r["profit"].d = 1
      /\ r["profit"].v =
           r["gross income"].v - (r["T.doc.com"].v + r["com pay"].v)
      /\ (r["gross income"] = Num(1000) /\ r["T.doc.com"] = Num(200)
            /\ r["com pay"] = Num(50))
           => (r["profit"] = Num(750) /\ r["profit_margin_pct"] = Num(75))

\* A table returned from a source without profit, holding the example row and
\* a row whose advertising commission is not 0 and whose gross income is not
\* positive.
C7_Witness ==
  /\ Returned /\ "profit" \notin source.cols
  /\ \E r \in OutRows : r["gross income"] = Num(1000) /\ r["profit"] = Num(750)
  /\ \E r \in OutRows : r["gross income"].v <= 0 /\ r["com pay"].v > 0

\* C8: every returned table has a total_deductions field on every row, equal
\* to T.doc.com + com pay, whether or not the source had a profit column.
C8_TotalDeductions ==
  Returned =>
    /\ "total_deductions" \in loaded.t.cols
    /\ \A r \in OutRows :
         r["total_deductions"].v = r["T.doc.com"].v + r["com pay"].v

\* The number load_data is to make of a source profit cell.
CoercedProfit(c) == IF c.k \in {"num", "numtxt"} THEN c.v ELSE 0

\* C9: when the source has a profit column, each returned row's profit is the
\* source value coerced to a number (0 when unparseable or missing), not the
\* derived one, and profit_margin_pct is computed from it.
C9_SourceProfit ==
  (Returned /\ "profit" \in source.cols) =>
    \A i \in Indices(loaded.t) :
      LET r == loaded.t.rows[i]
          src == source.rows[loaded.t.index[i] + 1]
          g == r["gross income"]
          m == r["profit_margin_pct"]
      IN  /\ r["profit"] = Num(CoercedProfit(src["profit"]))
          /\ g.v > 0 => m.v * g.v = CoercedProfit(src["profit"]) * 100 * m.d
          /\ g.v <= 0 => m = Num(0)

\* A returned row whose source profit (700, or unparseable) differs from
\* gross income minus the deductions, beside one whose profit was text.
C9_Witness ==
  /\ Returned /\ "profit" \in source.cols
  /\ \E r \in OutRows :
       /\ r["profit"] = Num(700)
       /\ r["gross income"].v - (r["T.doc.com"].v + r["com pay"].v) = 750
       /\ r["profit_margin_pct"] = Num(70)
  /\ \E i \in Indices(loaded.t) :
       /\ source.rows[loaded.t.index[i] + 1]["profit"].k = "txt"
       /\ loaded.t.rows[i]["profit"] = Num(0)

\* The source row an output row comes from: dropna keeps the index labels,
\* which are the 0-based positions in the sheet.
SourceRow(i) == source.rows[loaded.t.index[i] + 1]

\* The cell holds a date: a timestamp, or text that reads as one.
HoldsDate(c) == c.k \in {"date", "datetxt"}

\* C13: the table load_data returns has exactly the source rows whose date
\* parses: every output row has a valid date, the one of its source row, and
\* the output rows are the source rows with a date, in the order of the sheet.
C13_ValidDateRows ==
  Returned =>
    LET kept == KeptPositions([p \in 1..Len(source.rows) |->
                                 HoldsDate(source.rows[p]["date"])], 1)
    IN  /\ \A i \in Indices(loaded.t) :
             /\ loaded.t.rows[i]["date"].k = "date"
             /\ loaded.t.rows[i]["date"].v = SourceRow(i)["date"].v
        /\ loaded.t.index = [j \in 1..Len(kept) |-> kept[j] - 1]

\* A sheet of two rows: the date of the first does not parse, the date of
\* the second is text that does; the table returned has the second row only.
C13_Witness ==
  /\ Returned
  /\ Len(source.rows) = 2
  /\ source.rows[1]["date"].k \in {"txt", "nan"}
  /\ source.rows[2]["date"].k = "datetxt"
  /\ loaded.t.index = <<1>>
  /\ loaded.t.rows[1]["date"] = Stamp(6, 10)

\* The monetary columns of the sheet, and those load_data derives from them.
MonetaryCols == {"gross income", "doctor comission payed", "com to be payed",
                 "T.doc.com", "com pay"}

DerivedMonetaryCols == {"commission_paid_daily", "commission_paid_monthly",
                        "total_commission", "advertising_commission", "profit",
                        "profit_margin_pct"}

\* C14: in every table load_data returns, each monetary column and each
\* column derived from them is there and holds a number on every row; a
\* monetary column absent from the source is 0 on every row, and a cell of
\* a present one that is missing or does not parse as a number is 0, the
\* other cells keeping their number.
C14_MonetaryNumbers ==
  Returned =>
    /\ MonetaryCols \cup DerivedMonetaryCols \subseteq loaded.t.cols
    /\ \A i \in Indices(loaded.t) :
         /\ \A c \in (MonetaryCols \cup DerivedMonetaryCols \cup {"total_deductions"})
                       \cap loaded.t.cols : loaded.t.rows[i][c].k = "num"
         /\ \A c \in MonetaryCols :
              loaded.t.rows[i][c] =
                IF c \notin source.cols THEN Num(0)
                ELSE IF SourceRow(i)[c].k \in {"num", "numtxt"} THEN Num(SourceRow(i)[c].v)
                ELSE Num(0)

\* A sheet without the "com pay" column and with a missing gross income:
\* both are 0 in the table returned, and the profit derived is a number.
C14_Witness ==
  /\ Returned
  /\ "com pay" \notin source.cols
  /\ \E i \in Indices(loaded.t) :
       /\ SourceRow(i)["gross income"].k = "nan"
       /\ loaded.t.rows[i]["gross income"] = Num(0)
       /\ loaded.t.rows[i]["com pay"] = Num(0)
       /\ loaded.t.rows[i]["profit"] = Num(-200)

CategoricalCols == {"visit type", "Doctor", "Patient"}

\* C15: in every table load_data returns, visit type, Doctor and Patient are
\* strings on every row: "Unknown" on every row of a column absent from the
\* source, "Unknown" where a present column has a missing entry, and the
\* entry itself (for a number, its text with or without ".0") otherwise.
C15_CategoricalStrings ==
  Returned =>
    \A i \in Indices(loaded.t), c \in CategoricalCols :
      /\ c \in loaded.t.cols
      /\ loaded.t.rows[i][c].k = "str"
      /\ loaded.t.rows[i][c].s =
           IF c \notin source.cols THEN "Unknown"
           ELSE IF SourceRow(i)[c].k = "nan" THEN "Unknown"
           ELSE IF SourceRow(i)[c].k = "num"
           THEN (IF loaded.t.rows[i][c].s = IntStr(SourceRow(i)[c].v) \o ".0"
                 THEN loaded.t.rows[i][c].s ELSE IntStr(SourceRow(i)[c].v))
           ELSE SourceRow(i)[c].s

\* The cell holds a string: text of the sheet, or text the loader made.
IsString(c) == c.k \in {"txt", "numtxt", "datetxt", "str"}

\* C16: in every table load_data returns, the id of every row is a string
\* and no two rows have the same id; when the source has no id column, the
\* id of a row is the text of its 0-based position in the source.
C16_IdStrings ==
  Returned =>
    /\ "id" \in loaded.t.cols
    /\ \A i \in Indices(loaded.t) : IsString(loaded.t.rows[i]["id"])
    /\ \A i, j \in Indices(loaded.t) :
         i # j => loaded.t.rows[i]["id"] # loaded.t.rows[j]["id"]
    /\ "id" \notin source.cols =>
         \A i \in Indices(loaded.t) :
           loaded.t.rows[i]["id"] = Str(IntStr(loaded.t.index[i]))

\* The columns in which load_data has put a default in place of what the
\* source gives: a column it synthesized, a monetary column with a cell that
\* does not parse as a number, a categorical column with a missing entry.
SubstitutedCols ==
  ((MonetaryCols \cup CategoricalCols \cup {"id"}) \ source.cols)
  \cup { c \in MonetaryCols \cap source.cols :
           \E i \in Indices(loaded.t) : SourceRow(i)[c].k \in {"txt", "datetxt"} }
  \cup { c \in CategoricalCols \cap source.cols :
           \E i \in Indices(loaded.t) :
             SourceRow(i)[c].k = "nan" /\ loaded.t.rows[i][c] = Str("Unknown") }

\* C18: every fallback substitution of a load that returns a table comes
\* with a warning about the column it was made in.
C18_FallbackWarned ==
  Returned => SubstitutedCols \subseteq loaded.warnings

\* C19: whatever the source, load_data either returns a table or shows an
\* error and stops; it never ends with an exception nothing handles.
C19_ReturnsOrStops ==
  loaded.status # "notrun" =>
    \/ loaded.status = "ok" /\ loaded.errors = {}
    \/ loaded.status = "stopped" /\ loaded.errors # {}

\* The essential columns whose absence at the final checks is fatal.
FatalCols == { essential_cols[i] : i \in DOMAIN essential_cols } \ {"id", "profit"}

\* C27: every call of load_data that reaches the final checks reaches them
\* with date, gross income, Doctor, Patient and visit type present, and no
\* call shows "Essential column ... is missing" or is stopped by the checks:
\* a call stops only when the file cannot be read.
C27_FatalBranchUnreachable ==
  loaded.status # "notrun" =>
    /\ Preprocessed(source).status = "ok" => FatalCols \subseteq Preprocessed(source).t.cols
    /\ loaded.errors \cap FatalCols = {}
    /\ loaded.status = "stopped" => loaded.errors = {"load"}
    /\ FinalChecks(Preprocessed(source)).status = Preprocessed(source).status

\* A workbook without a Doctor column has been loaded: the column was
\* created with a warning and the final checks let the table through.
C27_Witness ==
  /\ Returned
  /\ "Doctor" \notin source.cols
  /\ "Doctor" \in loaded.warnings
  /\ "Doctor" \in loaded.t.cols
  /\ Len(source.rows) = 2

(***************************************************************************)
(* SpecFinal: the final checks of load_data (the loop over essential_cols) *)
(* run on a table with any subset of the essential columns.  source is the *)
(* sheet the table was read from, loaded the outcome of the checks.        *)
(***************************************************************************)
EssentialColSets == SUBSET { essential_cols[k] : k \in DOMAIN essential_cols }

\* The table as it reaches the checks: read, its undated rows dropped.
BeforeFinalChecks(src) ==
  IF "date" \in src.cols THEN ConvertDate(ReadExcel(src)) ELSE ReadExcel(src)

InitFinal ==
  /\ \E cols \in EssentialColSets, n \in 1..MaxRows :
       \E rows \in [1..n -> RowsOver(FewRows, cols)] :
         source = Workbook(cols, rows)
  /\ loaded = NotRun
  /\ FilterIdle /\ ApptIdle /\ CostIdle /\ CacheIdle /\ GoalIdle /\ SchemaIdle

RunFinalChecks ==
  /\ loaded.status = "notrun"
  /\ loaded' = FinalChecks(BeforeFinalChecks(source))
  /\ UNCHANGED <<source, filterVars, apptVars, costVars, cacheVars,
                 goalVars, schemaVars>>

NextFinal == RunFinalChecks

SpecFinal == InitFinal /\ [][NextFinal]_vars

\* The essential columns other than id and profit that the table lacks.
MissingEssential == {"date", "gross income", "Doctor", "Patient", "visit type"} \ source.cols

Minutes(n) == 2 * n

\* int(x) of a duration: its whole minutes, the fraction dropped toward zero.
IntMinutes(x) == IF x >= 0 THEN Minutes(x \div 2) ELSE 0 - Minutes((0 - x) \div 2)

UpperCase == <<"A", "B", "C", "D", "E", "F", "G", "H", "I", "J", "K", "L", "M",
               "N", "O", "P", "Q", "R", "S", "T", "U", "V", "W", "X", "Y", "Z">>

LowerCase == <<"a", "b", "c", "d", "e", "f", "g", "h", "i", "j", "k", "l", "m",
               "n", "o", "p", "q", "r", "s", "t", "u", "v", "w", "x", "y", "z">>

\* str.lower()
LowerChar(ch) ==
  IF \E i \in DOMAIN UpperCase : UpperCase[i] = ch
  THEN LowerCase[CHOOSE i \in DOMAIN UpperCase : UpperCase[i] = ch]
  ELSE ch

Lower(str) == [i \in DOMAIN str |-> LowerChar(str[i])]

\* needle in hay
Contains(hay, needle) ==
  \E k \in 0..(Len(hay) - Len(needle)) :
    \A j \in 1..Len(needle) : hay[k + j] = needle[j]

DateOf(r) == r.date \div 24

HourOf(r) == r.date % 24

Min(S) == CHOOSE x \in S : \A y \in S : x <= y

Max(S) == CHOOSE x \in S : \A y \in S : x >= y

Values(df, F(_)) == { F(df[i]) : i \in DOMAIN df }

\* df[mask] on a sequence of rows.
Filter(df, Keep(_)) ==
  LET pos == KeptPositions([i \in DOMAIN df |-> Keep(df[i])], 1)
  IN  [j \in 1..Len(pos) |-> df[pos[j]]]

min_date_allowed(df) == Min(Values(df, DateOf))

max_date_allowed(df) == Max(Values(df, DateOf))

\* The first day of the year of a day: 2023 has 365 days, 2024 has 366.
YearStart(day) == IF day < 365 THEN 0 ELSE IF day < 731 THEN 365 ELSE 731

\* PresetStart with the presets reaching back 7, 30 and 90 days from end.
PresetStartOffByOne(df, preset, end) ==
  LET lo == min_date_allowed(df)
  IN  CASE preset = "Last 7 Days" -> Max({end - 7, lo})
        [] preset = "Last 30 Days" -> Max({end - 30, lo})
        [] preset = "Last 90 Days" -> Max({end - 90, lo})
        [] preset = "Year to Date" -> Max({YearStart(end), lo})
        [] OTHER -> lo

\* The start a preset gives, before it is clamped to end_date.
PresetStart(df, preset, end) ==
  LET lo == min_date_allowed(df)
  IN  CASE preset = "Last 7 Days" -> Max({end - 6, lo})
        [] preset = "Last 30 Days" -> Max({end - 29, lo})
        [] preset = "Last 90 Days" -> Max({end - 89, lo})
        [] preset = "Year to Date" -> Max({YearStart(end), lo})
        [] OTHER -> lo

\* The date range the widgets w resolve to: <<start_date, end_date>>.
DateRange(df, w) ==
  LET lo == min_date_allowed(df)
      hi == max_date_allowed(df)
      range == IF w.date_preset = "Custom"
               THEN (IF Len(w.custom_date_range) = 2 THEN w.custom_date_range
                     ELSE <<lo, hi>>)
               ELSE <<PresetStart(df, w.date_preset, hi), hi>>
  IN  IF range[1] > range[2] THEN <<range[2], range[2]>> ELSE range

available_doctors(df, w) ==
  { d \in Values(df, LAMBDA r : r.Doctor) : Contains(Lower(d), Lower(w.doctor_search)) }

selected_doctors(df, w) ==
  IF w.all_doctors \/ available_doctors(df, w) = {}
  THEN available_doctors(df, w)
  ELSE w.doctor_multiselect

all_visit_types_unique(df) == Values(df, LAMBDA r : r.visit_type)

Regular == <<"r", "e", "g", "u", "l", "a", "r">>

Special == <<"s", "p", "e", "c", "i", "a", "l">>

Emergency == <<"e", "m", "e", "r", "g", "e", "n", "c", "y">>

\* visit_categories, before the empty ones are dropped.
VisitCategory(df, name) ==
  CASE name = "All" -> all_visit_types_unique(df)
    [] name = "Regular" ->
         { vt \in all_visit_types_unique(df) : Contains(Lower(vt), Regular) }
    [] name = "Special" ->
         { vt \in all_visit_types_unique(df) : Contains(Lower(vt), Special) }
    [] name = "Emergency" ->
         { vt \in all_visit_types_unique(df) : Contains(Lower(vt), Emergency) }

\* The keys of visit_categories: the categories with a visit type.
visit_categories(df) ==
  { name \in {"All", "Regular", "Special", "Emergency"} : VisitCategory(df, name) # {} }

selected_visit_types(df, w) ==
  IF visit_categories(df) = {} THEN {}
  ELSE IF w.visit_category = "All"
  THEN (IF w.all_visit_types THEN all_visit_types_unique(df)
        ELSE w.visit_type_multiselect)
  ELSE VisitCategory(df, w.visit_category)

available_payment_methods(df) == Values(df, LAMBDA r : r.payment_method)

selected_payment_methods(df, w) ==
  IF w.all_payment_methods THEN available_payment_methods(df)
  ELSE w.payment_checkboxes

\* The bounds of a slider over the values F of the table: max is raised by 1
\* when all values are equal.
SliderBounds(df, F(_)) ==
  LET lo == Min(Values(df, F))
      hi == Max(Values(df, F))
  IN  IF lo > hi THEN <<hi, lo>> ELSE IF lo = hi THEN <<lo, hi + 1>> ELSE <<lo, hi>>

\* The criteria the widgets resolve to, for the table df_data.
Criteria(df, w) ==
  [start_date |-> DateRange(df, w)[1],
   end_date |-> DateRange(df, w)[2],
   selected_doctors |-> selected_doctors(df, w),
   selected_visit_types |-> selected_visit_types(df, w),
   selected_payment_methods |-> selected_payment_methods(df, w),
   income |-> w.income_slider,
   duration |-> w.duration_slider,
   hours |-> w.hour_slider]

\* DateStep with the timestamps, not their calendar dates, compared with the
\* range (whose ends are then midnights).
DateStepOnTimestamps(c, df) ==
  Filter(df, LAMBDA r : r.date >= c.start_date * 24 /\ r.date <= c.end_date * 24)

\* filtered_df = df[(date >= start_date) & (date <= end_date)]
DateStep(c, df) ==
  Filter(df, LAMBDA r : DateOf(r) >= c.start_date /\ DateOf(r) <= c.end_date)

\* DoctorStep with an empty selection read as "no filter".
DoctorStepEmptyIsAll(c, df) ==
  IF c.selected_doctors # {}
  THEN Filter(df, LAMBDA r : r.Doctor \in c.selected_doctors)
  ELSE df

\* if selected: df[df[col].isin(selected)] else: df.iloc[0:0]
DoctorStep(c, df) ==
  IF c.selected_doctors # {}
  THEN Filter(df, LAMBDA r : r.Doctor \in c.selected_doctors)
  ELSE <<>>

\* VisitTypeStep that keeps the table as it is once it has a single row.
VisitTypeStepSkipsSingle(c, df) ==
  IF Len(df) <= 1 THEN df
  ELSE IF c.selected_visit_types # {}
  THEN Filter(df, LAMBDA r : r.visit_type \in c.selected_visit_types)
  ELSE <<>>

VisitTypeStep(c, df) ==
  IF c.selected_visit_types # {}
  THEN Filter(df, LAMBDA r : r.visit_type \in c.selected_visit_types)
  ELSE <<>>

PaymentStep(c, df) ==
  IF c.selected_payment_methods # {}
  THEN Filter(df, LAMBDA r : r.payment_method \in c.selected_payment_methods)
  ELSE <<>>

IncomeStep(c, df) ==
  Filter(df, LAMBDA r : r.gross_income >= c.income[1] /\ r.gross_income <= c.income[2])

DurationStep(c, df) ==
  Filter(df, LAMBDA r : /\ r.visit_duration_mins >= c.duration[1]
                        /\ r.visit_duration_mins <= c.duration[2])

HourStep(c, df) ==
  Filter(df, LAMBDA r : HourOf(r) >= c.hours[1] /\ HourOf(r) <= c.hours[2])

\* The k-th filter step of render_sidebar, in the order of the source.
FilterStep(k, c, df) ==
  CASE k = 1 -> DateStep(c, df)
    [] k = 2 -> DoctorStep(c, df)
    [] k = 3 -> VisitTypeStep(c, df)
    [] k = 4 -> PaymentStep(c, df)
    [] k = 5 -> IncomeStep(c, df)
    [] k = 6 -> DurationStep(c, df)
    [] k = 7 -> HourStep(c, df)

\* ApplySteps with every step run on the table the chain started from, the
\* result being what the last step keeps of it.
ApplyStepsEachFromSource(order, c, df) ==
  IF order = <<>> THEN df ELSE FilterStep(order[Len(order)], c, df)

\* The steps order[1], order[2], ... applied one after the other to df.
RECURSIVE ApplySteps(_, _, _)
ApplySteps(order, c, df) ==
  IF order = <<>> THEN df
  ELSE ApplySteps(Tail(order), c, FilterStep(Head(order), c, df))

SourceOrder == <<1, 2, 3, 4, 5, 6, 7>>

\* DfDataAfter with the date step run in place on df_data (drop(inplace=True)
\* of the rows outside the range).
DfDataAfterInPlace(df, w) == DateStep(Criteria(df, w), df)

\* The rows of df_data when render_sidebar returns: every statement that
\* names df_data reads it (min, max, unique, len, a boolean-mask selection
\* that builds a new frame, copied at line 66); none assigns into it.
DfDataAfter(df, w) == df

\* render_sidebar(df_data) under the widget values w: the filtered table, the
\* table after each step, filter_details, the counts of the summary, and
\* df_data as the call leaves it.
render_sidebar(df, w) ==
  LET c == Criteria(df, w)
      after == [k \in 1..7 |-> ApplySteps(SubSeq(SourceOrder, 1, k), c, df)]
  IN  [status |-> "ok",
       filtered_df |-> after[7],
       after |-> after,
       criteria |-> c,
       filter_details |->
         [start_date |-> c.start_date,
          end_date |-> c.end_date,
          selected_doctors |-> c.selected_doctors,
          selected_visit_types |-> c.selected_visit_types,
          selected_payment_methods |-> c.selected_payment_methods],
       total_records |-> Len(df),
       filtered_records |-> Len(after[7]),
       df_data |-> DfDataAfter(df, w)]

(***************************************************************************)
(* The tables and widget values render_sidebar is run on                   *)
(***************************************************************************)
\* The number of visits the tables of the model are made of.
NPool == 5

\* The longest text typed into the doctor search box.
MaxSearchLen == 2

DrAb == <<"A", "b">>

DrBa == <<"b", "a">>

DrC == <<"c">>

VtRegular == <<"R", "e", "g", "u", "l", "a", "r">>

VtSpecial == <<"s", "p", "e", "c", "i", "a", "l">>

VtUnknown == <<"U", "n", "k", "n", "o", "w", "n">>

Visit(id, day, hour, doctor, vt, pm, gross, dur) ==
  [id |-> id, date |-> day * 24 + hour, Doctor |-> doctor, visit_type |-> vt,
   payment_method |-> pm, gross_income |-> gross, visit_duration_mins |-> dur]

\* Visits on 2023-04-11, 2023-12-27, 2023-12-31, 2024-01-02 and 2024-01-06;
\* the visit v4 lasted 57.5 minutes.
Pool ==
  <<Visit("v1", 366, 14, DrBa, VtSpecial, "Visa", 500, Minutes(43)),
    Visit("v2", 100, 9, DrBa, VtUnknown, "Cash", 1000, Minutes(22)),
    Visit("v3", 370, 9, DrAb, VtRegular, "Cash", 1000, Minutes(53)),
    Visit("v4", 360, 23, DrAb, VtRegular, "Visa", 500, Minutes(57) + 1),
    Visit("v5", 364, 0, DrC, VtUnknown, "Other", 0, Minutes(29)),
    Visit("v6", 370, 18, DrC, VtSpecial, "Cash", -100, Minutes(35)),
    Visit("v7", 369, 12, DrAb, VtUnknown, "Other", 250, Minutes(15))>>

\* The non-empty tables made of the first NPool visits, in the pool's order.
Tables ==
  { [j \in 1..Len(pos) |-> Pool[pos[j]]] :
      pos \in { KeptPositions([i \in 1..NPool |-> i \in S], 1) :
                  S \in SUBSET (1..NPool) \ {{}} } }

SearchTexts ==
  UNION { [1..n -> {"a", "A", "b"}] : n \in 0..MaxSearchLen }

Pairs(S) == { <<a, b>> \in S \X S : a <= b }

\* What each group of widgets shows before it is touched.
DateDefault(df) ==
  [date_preset |-> "Custom",
   custom_date_range |-> <<min_date_allowed(df), max_date_allowed(df)>>]

DoctorDefault == [doctor_search |-> <<>>, all_doctors |-> TRUE, doctor_multiselect |-> {}]

VisitDefault ==
  [visit_category |-> "All", all_visit_types |-> TRUE, visit_type_multiselect |-> {}]

PaymentDefault == [all_payment_methods |-> TRUE, payment_checkboxes |-> {}]

IncomeDefault(df) == SliderBounds(df, LAMBDA r : r.gross_income)

\* min_val_dur = int(min), max_val_dur = int(max), max raised by one minute
\* when the two are equal: the value the duration slider starts with.
DurationDefault(df) ==
  LET lo == IntMinutes(Min(Values(df, LAMBDA r : r.visit_duration_mins)))
      hi == IntMinutes(Max(Values(df, LAMBDA r : r.visit_duration_mins)))
  IN  IF lo > hi THEN <<hi, lo>>
      ELSE IF lo = hi THEN <<lo, hi + Minutes(1)>>
      ELSE <<lo, hi>>

HourDefault == <<0, 23>>

\* Every value a group of widgets can be given (a widget that is not shown
\* keeps its default).
DateChoices(df) ==
  { [DateDefault(df) EXCEPT !.date_preset = p] :
      p \in {"Last 7 Days", "Last 30 Days", "Last 90 Days", "Year to Date", "All Time"} }
  \cup { [date_preset |-> "Custom", custom_date_range |-> range] :
           range \in Pairs(Values(df, DateOf))
                     \cup { <<d>> : d \in Values(df, DateOf) } \cup {<<>>} }

DoctorChoices(df) ==
  { [doctor_search |-> text, all_doctors |-> TRUE, doctor_multiselect |-> {}] :
      text \in SearchTexts }
  \cup UNION { { [doctor_search |-> text, all_doctors |-> FALSE, doctor_multiselect |-> sel] :
                   sel \in IF available_doctors(df, [doctor_search |-> text]) = {}
                           THEN {{}}
                           ELSE SUBSET available_doctors(df, [doctor_search |-> text]) } :
               text \in SearchTexts }

VisitChoices(df) ==
  { [VisitDefault EXCEPT !.visit_category = cat] : cat \in visit_categories(df) }
  \cup { [visit_category |-> "All", all_visit_types |-> FALSE,
          visit_type_multiselect |-> sel] : sel \in SUBSET all_visit_types_unique(df) }

PaymentChoices(df) ==
  { PaymentDefault }
  \cup { [all_payment_methods |-> FALSE, payment_checkboxes |-> sel] :
           sel \in SUBSET available_payment_methods(df) }

IncomeChoices(df) ==
  Pairs(Values(df, LAMBDA r : r.gross_income)
        \cup {IncomeDefault(df)[1], IncomeDefault(df)[2]})

DurationChoices(df) ==
  Pairs(Values(df, LAMBDA r : IntMinutes(r.visit_duration_mins))
        \cup {DurationDefault(df)[1], DurationDefault(df)[2]})

HourChoices == Pairs({0, 9, 14, 23})

\* A few values of each group, combined with each other in WidgetChoices.
DateFew(df) ==
  { DateDefault(df), [DateDefault(df) EXCEPT !.date_preset = "Last 7 Days"] }

DoctorFew ==
  { DoctorDefault, [DoctorDefault EXCEPT !.doctor_search = <<"a">>],
    [DoctorDefault EXCEPT !.all_doctors = FALSE] }

VisitFew(df) ==
  { VisitDefault,
    [visit_category |-> "All", all_visit_types |-> FALSE,
     visit_type_multiselect |-> all_visit_types_unique(df) \cap {VtRegular, VtSpecial}] }

PaymentFew(df) ==
  { PaymentDefault,
    [all_payment_methods |-> FALSE,
     payment_checkboxes |-> available_payment_methods(df) \cap {"Cash"}] }

IncomeFew(df) ==
  { IncomeDefault(df),
    <<Max(Values(df, LAMBDA r : r.gross_income)), IncomeDefault(df)[2]>> }

DurationFew(df) ==
  { DurationDefault(df),
    <<DurationDefault(df)[1],
      IntMinutes(Min(Values(df, LAMBDA r : r.visit_duration_mins)))>> }

HourFew == { HourDefault, <<9, 14>> }

Widgets(d, doc, v, p, inc, dur, h) ==
  [date_preset |-> d.date_preset,
   custom_date_range |-> d.custom_date_range,
   doctor_search |-> doc.doctor_search,
   all_doctors |-> doc.all_doctors,
   doctor_multiselect |-> doc.doctor_multiselect,
   visit_category |-> v.visit_category,
   all_visit_types |-> v.all_visit_types,
   visit_type_multiselect |-> v.visit_type_multiselect,
   all_payment_methods |-> p.all_payment_methods,
   payment_checkboxes |-> p.payment_checkboxes,
   income_slider |-> inc,
   duration_slider |-> dur,
   hour_slider |-> h]

\* The widget values tried on a table: group g takes every value it can while
\* the others keep their default (g = 1..7), or every group takes one of its
\* few values (g = 0).
WidgetChoices(df) ==
  UNION {
    { Widgets(d, doc, v, p, inc, dur, h) :
        d \in IF g = 1 THEN DateChoices(df)
              ELSE IF g = 0 THEN DateFew(df) ELSE {DateDefault(df)},
        doc \in IF g = 2 THEN DoctorChoices(df)
                ELSE IF g = 0 THEN DoctorFew ELSE {DoctorDefault},
        v \in IF g = 3 THEN VisitChoices(df)
              ELSE IF g = 0 THEN VisitFew(df) ELSE {VisitDefault},
        p \in IF g = 4 THEN PaymentChoices(df)
              ELSE IF g = 0 THEN PaymentFew(df) ELSE {PaymentDefault},
        inc \in IF g = 5 THEN IncomeChoices(df)
                ELSE IF g = 0 THEN IncomeFew(df) ELSE {IncomeDefault(df)},
        dur \in IF g = 6 THEN DurationChoices(df)
                ELSE IF g = 0 THEN DurationFew(df) ELSE {DurationDefault(df)},
        h \in IF g = 7 THEN HourChoices
              ELSE IF g = 0 THEN HourFew ELSE {HourDefault} } :
    g \in 0..7 }

(***************************************************************************)
(* SpecFilter: render_sidebar run once on each table, for each choice of   *)
(* widget values.                                                          *)
(***************************************************************************)
InitFilter ==
  /\ table \in Tables
  /\ widgets = <<>>
  /\ rendered = NotRun
  /\ LoadIdle /\ ApptIdle /\ CostIdle /\ CacheIdle /\ GoalIdle /\ SchemaIdle

RenderSidebar ==
  /\ rendered.status = "notrun"
  /\ \E w \in WidgetChoices(table) :
       /\ widgets' = w
       /\ rendered' = render_sidebar(table, w)
  /\ UNCHANGED <<table, loadVars, apptVars, costVars, cacheVars,
                 goalVars, schemaVars>>

NextFilter == RenderSidebar

SpecFilter == InitFilter /\ [][NextFilter]_vars

Rendered == rendered.status = "ok"

\* The chain of render_sidebar without its doctor step.
WithoutDoctorStep == ApplySteps(<<1, 3, 4, 5, 6, 7>>, rendered.criteria, table)

\* C5, as claimed: an empty selected-doctor set gives zero rows, and with
\* "All Doctors" on the result has as many rows as without the doctor step,
\* whatever the search text.
C5_AllDoctorsAnySearch ==
  Rendered =>
    /\ rendered.criteria.selected_doctors = {} => Len(rendered.filtered_df) = 0
    /\ widgets.all_doctors => Len(rendered.filtered_df) = Len(WithoutDoctorStep)

\* The search text is a substring of every doctor's name, case ignored.
SearchMatchesEveryDoctor ==
  \A i \in DOMAIN table :
    Contains(Lower(table[i].Doctor), Lower(widgets.doctor_search))

\* C5, amended: an empty selected-doctor set gives zero rows; with "All
\* Doctors" on, the result is what the other steps keep of the doctors whose
\* name contains the search text (case ignored), and so has as many rows as
\* without the doctor step when the text is empty or matches every doctor.
C5_AllDoctorsMatchingSearch ==
  Rendered =>
    /\ rendered.criteria.selected_doctors = {} => Len(rendered.filtered_df) = 0
    /\ widgets.all_doctors =>
         rendered.filtered_df =
           Filter(WithoutDoctorStep,
                  LAMBDA r : Contains(Lower(r.Doctor), Lower(widgets.doctor_search)))
    /\ (widgets.all_doctors /\ SearchMatchesEveryDoctor) =>
         Len(rendered.filtered_df) = Len(WithoutDoctorStep)

\* "All Doctors" is on, a search text typed in another case matches every
\* doctor of a table with two doctors, and rows are returned.
C5_Witness ==
  /\ Rendered /\ widgets.all_doctors
  /\ widgets.doctor_search = <<"A">>
  /\ SearchMatchesEveryDoctor
  /\ Cardinality(Values(table, LAMBDA r : r.Doctor)) = 2
  /\ Len(rendered.filtered_df) >= 2

\* C6: with the preset "Last 7 Days", end is the latest date of the table,
\* start is the later of end - 6 days and the earliest date, and the date step
\* keeps exactly the rows dated within those (at most 7) days.
C6_LastSevenDays ==
  (Rendered /\ widgets.date_preset = "Last 7 Days") =>
    LET days == { table[i].date \div 24 : i \in DOMAIN table }
        last == CHOOSE d \in days : \A e \in days : e <= d
        first == CHOOSE d \in days : \A e \in days : d <= e
        start == IF last - 6 >= first THEN last - 6 ELSE first
    IN  /\ rendered.filter_details.end_date = last
        /\ rendered.filter_details.start_date = start
        /\ last - start <= 6
        /\ \A i \in DOMAIN table :
             (\E j \in DOMAIN rendered.after[1] : rendered.after[1][j] = table[i])
               <=> (table[i].date \div 24 \in start..last)
        /\ \A j \in DOMAIN rendered.after[1] :
             \E i \in DOMAIN table : rendered.after[1][j] = table[i]

\* "Last 7 Days" on a table with a visit exactly 6 days before the latest one
\* (kept) and a visit 10 days before it (dropped).
C6_Witness ==
  /\ Rendered /\ widgets.date_preset = "Last 7 Days"
  /\ \E i, j, k \in DOMAIN table :
       /\ DateOf(table[i]) = max_date_allowed(table)
       /\ DateOf(table[j]) = DateOf(table[i]) - 6
       /\ DateOf(table[k]) = DateOf(table[i]) - 10
  /\ Len(rendered.after[1]) = Len(table) - 1

\* The row satisfies every one of the seven criteria.
SatisfiesAll(c, r) ==
  /\ r.date \div 24 >= c.start_date /\ r.date \div 24 <= c.end_date
  /\ r.Doctor \in c.selected_doctors
  /\ r.visit_type \in c.selected_visit_types
  /\ r.payment_method \in c.selected_payment_methods
  /\ r.gross_income >= c.income[1] /\ r.gross_income <= c.income[2]
  /\ r.visit_duration_mins >= c.duration[1] /\ r.visit_duration_mins <= c.duration[2]
  /\ r.date % 24 >= c.hours[1] /\ r.date % 24 <= c.hours[2]

\* Orders of the seven steps: the source's, its reverse, its rotations and
\* every order that swaps two steps of the source's.
Swap(order, a, b) ==
  [k \in DOMAIN order |-> IF k = a THEN order[b] ELSE IF k = b THEN order[a] ELSE order[k]]

StepOrders ==
  { SourceOrder, [k \in 1..7 |-> 8 - k] }
  \cup { [k \in 1..7 |-> ((k + n - 1) % 7) + 1] : n \in 1..6 }
  \cup { Swap(SourceOrder, a, b) : a, b \in 1..7 }

\* C10: the rows render_sidebar's chain returns are the rows of the table
\* that satisfy the conjunction of the seven criteria, and the steps applied
\* in any other order return the same rows.
C10_ChainIsConjunction ==
  Rendered =>
    LET c == rendered.criteria
        all == Filter(table, LAMBDA r : SatisfiesAll(c, r))
    IN  /\ rendered.filtered_df = all
        /\ \A order \in StepOrders : ApplySteps(order, c, table) = all

\* A call in which at least three different steps each drop a row and rows
\* are left at the end.
C10_Witness ==
  /\ Rendered
  /\ Len(rendered.filtered_df) > 0
  /\ Len(rendered.after[1]) < Len(table)
  /\ Cardinality({ k \in 2..7 : Len(rendered.after[k]) < Len(rendered.after[k - 1]) }) >= 2

\* The table render_sidebar has after its k-th step; the table it was given
\* for k = 0.
AfterStep(k) == IF k = 0 THEN table ELSE rendered.after[k]

\* C11: every filter step's output is a subset of its input, with no more
\* rows; once the result is empty after a step it is empty after every later
\* step, and the filtered table returned is empty.
C11_EmptyStaysEmpty ==
  Rendered =>
    \A k \in 1..7 :
      /\ Len(AfterStep(k)) <= Len(AfterStep(k - 1))
      /\ \A j \in DOMAIN AfterStep(k) :
           \E i \in DOMAIN AfterStep(k - 1) : AfterStep(k)[j] = AfterStep(k - 1)[i]
      /\ AfterStep(k) = <<>> =>
           /\ \A later \in k..7 : AfterStep(later) = <<>>
           /\ rendered.filtered_df = <<>>

\* The date step keeps rows, the doctor step leaves none, and rows of the
\* table satisfy the criterion of every step after the doctor step.
C11_Witness ==
  /\ Rendered
  /\ AfterStep(1) # <<>> /\ AfterStep(2) = <<>>
  /\ rendered.filtered_df = <<>>
  /\ ApplySteps(<<3, 4, 5, 6, 7>>, rendered.criteria, table) # <<>>

\* C12: for every date preset and non-empty table, the resolved range has
\* earliest date <= start <= end = latest date of the unfiltered table, and
\* the date step keeps a row iff start <= its calendar date <= end.
C12_PresetRange ==
  (Rendered /\ widgets.date_preset # "Custom") =>
    LET days == { table[i].date \div 24 : i \in DOMAIN table }
        start == rendered.filter_details.start_date
        end == rendered.filter_details.end_date
    IN  /\ \A d \in days : d <= end
        /\ end \in days
        /\ start <= end
        /\ \E d \in days : d <= start
        /\ \A i \in DOMAIN table :
             (\E j \in DOMAIN rendered.after[1] : rendered.after[1][j] = table[i])
               <=> (table[i].date \div 24 >= start /\ table[i].date \div 24 <= end)
        /\ Len(rendered.after[1]) =
             Cardinality({ i \in DOMAIN table :
                             table[i].date \div 24 >= start /\ table[i].date \div 24 <= end })

\* "Year to Date" on a table with visits in two years: the visits of the
\* earlier year are dropped, a visit late on the latest day is kept.
C12_Witness ==
  /\ Rendered /\ widgets.date_preset = "Year to Date"
  /\ rendered.filter_details.start_date = 365
  /\ \E i \in DOMAIN table : DateOf(table[i]) < 365
  /\ \E j \in DOMAIN rendered.after[1] :
       /\ DateOf(rendered.after[1][j]) = rendered.filter_details.end_date
       /\ HourOf(rendered.after[1][j]) > 0
  /\ Len(rendered.after[1]) < Len(table)

AllDefault ==
  widgets = Widgets(DateDefault(table), DoctorDefault, VisitDefault, PaymentDefault,
                    IncomeDefault(table), DurationDefault(table), HourDefault)

\* C24, as claimed: with every criterion at its default, render_sidebar
\* returns every row of the table, whatever gross income, duration and hour
\* the rows have.
C24_DefaultsKeepAllRows ==
  (Rendered /\ AllDefault) => rendered.filtered_df = table


(*                                                                         *)
(* A Python or SQLite value is a record [t, n, s]:                         *)
(*   t = "null"     None / NULL,                                           *)
(*   t = "text"     the string s,                                          *)
(*   t = "datetime" a datetime object, the instant n,                      *)
(*   t = "time"     a time object, the time of day n,                      *)
(*   t = "isodt"    the text datetime.isoformat() gives for the instant n, *)
(*   t = "isotime"  the text time.isoformat() gives for the time of day n. *)
(* A row of the table is a function from its columns to values; the table  *)
(* is a function from the AppointmentIDs stored to their rows.             *)
(***************************************************************************)
None == [t |-> "null", n |-> 0, s |-> ""]

Text(x) == [t |-> "text", n |-> 0, s |-> x]

DateTime(n) == [t |-> "datetime", n |-> n, s |-> ""]

TimeOfDay(n) == [t |-> "time", n |-> n, s |-> ""]

\* value.isoformat() if isinstance(value, datetime) else value
IsoIfDateTime(x) == IF x.t = "datetime" THEN [x EXCEPT !.t = "isodt"] ELSE x

\* value.isoformat() if isinstance(value, time) else value
IsoIfTime(x) == IF x.t = "time" THEN [x EXCEPT !.t = "isotime"] ELSE x

\* datetime.now().isoformat() at the given reading of the clock.
NowIso(now) == [t |-> "isodt", n |-> now, s |-> ""]

valid_columns ==
  {"PatientName", "DoctorName", "AppointmentDateTime", "AppointmentType",
   "AppointmentStatus", "BookingDateTime", "CancellationDateTime",
   "ConfirmationStatus", "ReminderType", "BookingChannel", "ReferralSource",
   "PatientArrivalTime", "AppointmentStartTime", "AppointmentEndTime"}

\* The columns declared NOT NULL.
NotNullColumns == {"PatientName", "DoctorName", "AppointmentDateTime"}

\* The row add_appointment inserts: the status is 'Scheduled' and
\* CancellationDateTime, not named in the INSERT, is NULL.
InsertedRow(a) ==
  [c \in valid_columns |->
    CASE c = "PatientName" -> a.patient_name
      [] c = "DoctorName" -> a.doctor_name
      [] c = "AppointmentDateTime" -> IsoIfDateTime(a.appointment_datetime)
      [] c = "AppointmentType" -> a.appointment_type
      [] c = "AppointmentStatus" -> Text("Scheduled")
      [] c = "BookingDateTime" ->
           IF a.booking_datetime = None THEN None ELSE IsoIfDateTime(a.booking_datetime)
      [] c = "CancellationDateTime" -> None
      [] c = "ConfirmationStatus" -> a.confirmation_status
      [] c = "ReminderType" -> a.reminder_type
      [] c = "BookingChannel" -> a.booking_channel
      [] c = "ReferralSource" -> a.referral_source
      [] c = "PatientArrivalTime" -> IsoIfTime(a.patient_arrival_time)
      [] c = "AppointmentStartTime" -> IsoIfTime(a.appointment_start_time)
      [] c = "AppointmentEndTime" -> IsoIfTime(a.appointment_end_time)]

\* updates[key] = value, whether or not the dict had the key.
Put(updates, key, value) ==
  [k \in DOMAIN updates \cup {key} |-> IF k = key THEN value ELSE updates[k]]

\* WithCancellation that never clears the cancellation time.
WithCancellationNeverCleared(updates, now) ==
  IF /\ "AppointmentStatus" \in DOMAIN updates
     /\ updates["AppointmentStatus"] = Text("Cancelled")
     /\ "CancellationDateTime" \notin DOMAIN updates
  THEN Put(updates, "CancellationDateTime", NowIso(now))
  ELSE updates

\* WithCancellation that clears the cancellation time but never sets it.
WithCancellationNeverSet(updates, now) ==
  IF /\ "AppointmentStatus" \in DOMAIN updates
     /\ updates["AppointmentStatus"] # Text("Cancelled")
  THEN Put(updates, "CancellationDateTime", None)
  ELSE updates

\* The cancellation time update_appointment adds to, or clears in, updates.
WithCancellation(updates, now) ==
  IF /\ "AppointmentStatus" \in DOMAIN updates
     /\ updates["AppointmentStatus"] = Text("Cancelled")
     /\ "CancellationDateTime" \notin DOMAIN updates
  THEN Put(updates, "CancellationDateTime", NowIso(now))
  ELSE IF /\ "AppointmentStatus" \in DOMAIN updates
          /\ updates["AppointmentStatus"] # Text("Cancelled")
  THEN Put(updates, "CancellationDateTime", None)
  ELSE updates

\* datetime and time objects of updates become ISO strings.
WithIsoStrings(updates) ==
  [k \in DOMAIN updates |->
    IF k \in {"AppointmentDateTime", "BookingDateTime"} THEN IsoIfDateTime(updates[k])
    ELSE IF k \in {"PatientArrivalTime", "AppointmentStartTime", "AppointmentEndTime"}
    THEN IsoIfTime(updates[k])
    ELSE updates[k]]

\* SetClauses with a clause for every key of updates.
SetClausesAnyKey(updates, now) == WithIsoStrings(WithCancellation(updates, now))

\* The SET clauses of the UPDATE: the valid columns of updates and their values.
SetClauses(updates, now) ==
  LET u == WithIsoStrings(WithCancellation(updates, now))
  IN  [k \in DOMAIN u \cap valid_columns |-> u[k]]

\* The row after UPDATE ... SET clauses.
UpdatedRow(row, clauses) ==
  [c \in DOMAIN row |-> IF c \in DOMAIN clauses THEN clauses[c] ELSE row[c]]

\* The statement breaks a NOT NULL constraint (an sqlite3.IntegrityError).
BreaksNotNull(values) ==
  \E c \in NotNullColumns \cap DOMAIN values : values[c] = None

\* Where the store raises an sqlite3.Error in a call, if it does: in
\* cursor.execute (the statement writes nothing) or in conn.commit (the
\* statement has run in a transaction that is then never committed).
Stages == {"none", "execute", "commit"}

\* Outcome with the statement run again after an error, the second run
\* going through.
OutcomeWithRetry(before, written, ok, stage) ==
  [rows |-> written, ok |-> ok, shown |-> IF stage = "none" THEN "" ELSE "error",
   executes |-> IF stage = "none" THEN 1 ELSE 2, stage |-> stage]

\* try: execute; commit; return ok / except sqlite3.Error: st.error; return
\* False / finally: conn.close().  The table is the one the statement wrote
\* when the commit went through; otherwise it is the table before the call
\* (close() drops the uncommitted transaction), one error is shown and False
\* is returned.  execute is called once on either path.
Outcome(before, written, ok, stage) ==
  IF stage = "none"
  THEN [rows |-> written, ok |-> ok, shown |-> "", executes |-> 1, stage |-> stage]
  ELSE [rows |-> before, ok |-> FALSE, shown |-> "error", executes |-> 1,
        stage |-> stage]

\* A call that returns before its try block: a warning and False.
NothingToWrite(before) ==
  [rows |-> before, ok |-> FALSE, shown |-> "warning", executes |-> 0,
   stage |-> "none"]

(***************************************************************************)
(* SpecAppt: add_appointment, update_appointment and delete_appointment    *)
(* called in any order.  Each call may find the store failing (an          *)
(* sqlite3.Error raised by execute or commit), which the call catches.     *)
(***************************************************************************)
\* The most appointments ever added, and the most calls made.
MaxAppointments == 2

MaxCalls == 3

\* The arguments of add_appointment: as the form passes them, with the
\* optional ones left out, and with a patient name of None.
FormArgs(now) ==
  [patient_name |-> Text("P1"), doctor_name |-> Text("Dr A"),
   appointment_datetime |-> DateTime(50), appointment_type |-> Text("Follow-up"),
   booking_datetime |-> DateTime(now), confirmation_status |-> Text("Not Confirmed"),
   reminder_type |-> Text("SMS"), booking_channel |-> Text("Phone"),
   referral_source |-> Text("Website"), patient_arrival_time |-> None,
   appointment_start_time |-> TimeOfDay(9), appointment_end_time |-> None]

BareArgs ==
  [patient_name |-> Text("P1"), doctor_name |-> Text("Dr B"),
   appointment_datetime |-> DateTime(60), appointment_type |-> Text("Other"),
   booking_datetime |-> None, confirmation_status |-> None,
   reminder_type |-> None, booking_channel |-> None,
   referral_source |-> None, patient_arrival_time |-> None,
   appointment_start_time |-> None, appointment_end_time |-> None]

AddArgs(now) ==
  { FormArgs(now), BareArgs, [BareArgs EXCEPT !.patient_name = None] }

\* The updates dicts passed to update_appointment.
StatusOnly(status) == [k \in {"AppointmentStatus"} |-> Text(status)]

UpdateChoices ==
  { StatusOnly("Cancelled"), StatusOnly("Confirmed"), StatusOnly("Completed"),
    Put(StatusOnly("Cancelled"), "CancellationDateTime", Text("2024-01-01T10:00:00")),
    [k \in {"CancellationDateTime"} |-> Text("2024-01-01T10:00:00")],
    [k \in {"PatientName", "Foo"} |-> Text("P2")],
    [k \in {"Foo"} |-> Text("x")],
    [k \in {} |-> None],
    [k \in {"AppointmentID", "PatientArrivalTime"} |->
       IF k = "AppointmentID" THEN Text("other") ELSE TimeOfDay(8)],
    [k \in {"AppointmentDateTime"} |-> DateTime(70)],
    [k \in {"PatientName"} |-> None] }

\* The AppointmentIDs a call is given: the ones handed out so far, whose row
\* may be gone or never stored, and one never handed out.
KnownIds(next) == 0..next

InitAppt ==
  /\ appointments = <<>>
  /\ clock = 0
  /\ nextId = 0
  /\ apptCall = NotRun
  /\ LoadIdle /\ FilterIdle /\ CostIdle /\ CacheIdle /\ GoalIdle /\ SchemaIdle

\* Some update_appointment call so far was given a CancellationDateTime.
NamedCancellation(call) == call.status = "done" /\ call.explicit

\* What is remembered of a call: its arguments, what it returned, what it
\* showed ("error", "warning" or nothing), the table before it, how many
\* times it ran its statement, where the store raised, and whether this or
\* an earlier call was given a CancellationDateTime.
Call(op, id, updates, out) ==
  [status |-> "done", op |-> op, id |-> id, updates |-> updates, ok |-> out.ok,
   shown |-> out.shown, before |-> appointments, executes |-> out.executes,
   stage |-> out.stage,
   explicit |-> NamedCancellation(apptCall)
                \/ "CancellationDateTime" \in DOMAIN updates]

AddAppointment ==
  /\ clock < MaxCalls /\ nextId < MaxAppointments
  /\ \E a \in AddArgs(clock + 1), stage \in Stages :
       LET id == nextId + 1
           row == InsertedRow(a)
           written == [i \in DOMAIN appointments \cup {id} |->
                         IF i = id THEN row ELSE appointments[i]]
           out == Outcome(appointments, written, TRUE,
                          IF BreaksNotNull(row) THEN "execute" ELSE stage)
       IN  /\ appointments' = out.rows
           /\ apptCall' = Call("add", id, <<>>, out)
  /\ nextId' = nextId + 1
  /\ clock' = clock + 1
  /\ UNCHANGED <<loadVars, filterVars, costVars, cacheVars,
                 goalVars, schemaVars>>

\* update_appointment(id, updates) on the table rows, at the time now, the
\* store raising at the given stage if at any.
update_appointment(rows, id, updates, now, stage) ==
  LET clauses == SetClauses(updates, now)
      found == id \in DOMAIN rows
      written == [i \in DOMAIN rows |->
                    IF i = id THEN UpdatedRow(rows[i], clauses) ELSE rows[i]]
  IN  IF DOMAIN clauses = {} THEN NothingToWrite(rows)
      ELSE Outcome(rows, written, found,
                   IF found /\ BreaksNotNull(clauses) THEN "execute" ELSE stage)

UpdateAppointment ==
  /\ clock < MaxCalls
  /\ \E id \in KnownIds(nextId), updates \in UpdateChoices, stage \in Stages :
       LET out == update_appointment(appointments, id, updates, clock + 1, stage)
       IN  /\ appointments' = out.rows
           /\ apptCall' = Call("update", id, updates, out)
  /\ clock' = clock + 1
  /\ UNCHANGED <<nextId, loadVars, filterVars, costVars, cacheVars,
                 goalVars, schemaVars>>

DeleteAppointment ==
  /\ clock < MaxCalls
  /\ \E id \in KnownIds(nextId), stage \in Stages :
       LET written == [i \in DOMAIN appointments \ {id} |-> appointments[i]]
           out == Outcome(appointments, written, id \in DOMAIN appointments, stage)
       IN  /\ appointments' = out.rows
           /\ apptCall' = Call("delete", id, <<>>, out)
  /\ clock' = clock + 1
  /\ UNCHANGED <<nextId, loadVars, filterVars, costVars, cacheVars,
                 goalVars, schemaVars>>

NextAppt == AddAppointment \/ UpdateAppointment \/ DeleteAppointment

SpecAppt == InitAppt /\ [][NextAppt]_vars

\* The last call was update_appointment(id, {AppointmentStatus: s}), on a row
\* of the table, and it reported success.
StatusUpdateDone ==
  /\ apptCall.status = "done"
  /\ apptCall.op = "update"
  /\ apptCall.ok
  /\ DOMAIN apptCall.updates = {"AppointmentStatus"}

\* C1: update_appointment(id, {AppointmentStatus: 'Cancelled'}) leaves the
\* stored CancellationDateTime non-null, and update_appointment(id,
\* {AppointmentStatus: s}) with s other than 'Cancelled' leaves it null.
C1_CancellationRoundTrip ==
  StatusUpdateDone =>
    LET row == appointments[apptCall.id]
        s == apptCall.updates["AppointmentStatus"]
    IN  /\ row["AppointmentStatus"] = s
        /\ s = Text("Cancelled") => row["CancellationDateTime"].t # "null"
        /\ s # Text("Cancelled") => row["CancellationDateTime"].t = "null"

\* An appointment that was cancelled (its cancellation time was set) has just
\* been updated to 'Confirmed'.
C1_Witness ==
  /\ StatusUpdateDone
  /\ apptCall.updates["AppointmentStatus"] = Text("Confirmed")
  /\ apptCall.before[apptCall.id]["AppointmentStatus"] = Text("Cancelled")
  /\ apptCall.before[apptCall.id]["CancellationDateTime"].t = "isodt"

\* The last call was update_appointment.
UpdateCalled == apptCall.status = "done" /\ apptCall.op = "update"

\* The columns update_appointment(id, updates) may write: the valid columns
\* named in updates, and CancellationDateTime when AppointmentStatus is named.
Touched(updates) ==
  (DOMAIN updates \cap valid_columns)
  \cup (IF "AppointmentStatus" \in DOMAIN updates THEN {"CancellationDateTime"} ELSE {})

\* C25: update_appointment(id, updates) leaves the set of stored ids and
\* every row but the one with that id as they were; in that row every column
\* outside the valid columns named in updates (and CancellationDateTime when
\* AppointmentStatus is named) keeps its value, and after a successful call
\* the named valid columns hold the values given; when updates names no
\* valid column nothing is run or written and False is returned.
C25_UpdateFrame ==
  UpdateCalled =>
    LET u == apptCall.updates
        id == apptCall.id
        before == apptCall.before
    IN  /\ DOMAIN appointments = DOMAIN before
        /\ \A i \in DOMAIN appointments : i # id => appointments[i] = before[i]
        /\ id \in DOMAIN appointments =>
             /\ \A c \in valid_columns \ Touched(u) :
                  appointments[id][c] = before[id][c]
             /\ apptCall.ok =>
                  \A c \in (DOMAIN u \cap valid_columns) \ {"CancellationDateTime"} :
                    /\ appointments[id][c].n = u[c].n
                    /\ appointments[id][c].s = u[c].s
        /\ DOMAIN u \cap valid_columns = {} =>
             /\ appointments = before
             /\ ~apptCall.ok
             /\ apptCall.executes = 0

\* Two appointments are stored and update_appointment(id, {PatientName: 'P2',
\* Foo: 'P2'}) has changed the name of one of them.
C25_Witness ==
  /\ UpdateCalled /\ apptCall.ok
  /\ DOMAIN apptCall.updates = {"PatientName", "Foo"}
  /\ Cardinality(DOMAIN appointments) = 2
  /\ appointments[apptCall.id]["PatientName"] = Text("P2")
  /\ apptCall.before[apptCall.id]["PatientName"] = Text("P1")

\* C26: as long as no update_appointment call has been given a
\* CancellationDateTime, every stored appointment has a CancellationDateTime
\* if and only if its AppointmentStatus is 'Cancelled'.
C26_CancelledIffTime ==
  ~NamedCancellation(apptCall) =>
    \A i \in DOMAIN appointments :
      appointments[i]["CancellationDateTime"] # None
        <=> appointments[i]["AppointmentStatus"] = Text("Cancelled")

\* Of two stored appointments one has just been cancelled, which gave it a
\* cancellation time, and the other is still 'Scheduled' with none.
C26_Witness ==
  /\ ~NamedCancellation(apptCall)
  /\ StatusUpdateDone
  /\ apptCall.updates["AppointmentStatus"] = Text("Cancelled")
  /\ appointments[apptCall.id]["CancellationDateTime"] = NowIso(clock)
  /\ \E i \in DOMAIN appointments :
       /\ i # apptCall.id
       /\ appointments[i]["AppointmentStatus"] = Text("Scheduled")
       /\ appointments[i]["CancellationDateTime"] = None

(***************************************************************************)
(* The edit form of the appointment scheduling tab                         *)
(*                                                                         *)
(* The form is pre-filled from the row get_appointments returned for the   *)
(* selected id; submitting it builds an updates dict from its inputs and   *)
(* calls update_appointment.                                               *)
(***************************************************************************)
APPOINTMENT_TYPES ==
  <<"New Patient", "Follow-up", "Consultation", "Check-up", "Procedure", "Other">>

APPOINTMENT_STATUSES ==
  <<"Scheduled", "Confirmed", "Checked-in", "Completed", "Cancelled", "No-Show">>

CONFIRMATION_STATUSES == <<"Not Confirmed", "Confirmed", "Reminder Sent">>

REMINDER_TYPES == <<"None", "SMS", "Email", "Phone Call">>

BOOKING_CHANNELS == <<"Online Portal", "Phone", "In-Person", "Referral", "Other">>

REFERRAL_SOURCES ==
  <<"Website", "GP Referral", "Existing Patient", "Advertisement", "Walk-in", "Other">>

\* The doctors of the financial table, sorted.
distinct_doctors == <<"Dr A", "Dr C">>

\* st.selectbox(options, index=options.index(stored) if stored in options
\* else 0), left as it is: the stored value when it is an option, the first
\* option otherwise, None when there is no option.
SelectBox(options, stored) ==
  IF options = <<>> THEN None
  ELSE IF stored.t = "text" /\ \E i \in DOMAIN options : options[i] = stored.s
  THEN stored
  ELSE Text(options[1])

\* pd.to_datetime of the stored text, split by .date() and .time() into the
\* two inputs and joined again by combine_date_time; None when it is NaT.
DateTimeInputs(stored) ==
  IF stored.t = "isodt" THEN DateTime(stored.n) ELSE None

\* safe_str_to_time of the stored text, shown by st.time_input: an input
\* given None stays empty.
safe_str_to_time(stored) ==
  IF stored.t = "isotime" THEN TimeOfDay(stored.n) ELSE None

\* The inputs of the form for a row, none of them touched.
FormInputs(row) ==
  [k \in valid_columns \ {"BookingDateTime", "CancellationDateTime"} |->
    CASE k = "PatientName" -> row[k]
      [] k = "DoctorName" -> SelectBox(distinct_doctors, row[k])
      [] k = "AppointmentDateTime" -> DateTimeInputs(row[k])
      [] k = "AppointmentType" -> SelectBox(APPOINTMENT_TYPES, row[k])
      [] k = "AppointmentStatus" -> SelectBox(APPOINTMENT_STATUSES, row[k])
      [] k = "ConfirmationStatus" -> SelectBox(CONFIRMATION_STATUSES, row[k])
      [] k = "ReminderType" -> SelectBox(REMINDER_TYPES, row[k])
      [] k = "BookingChannel" -> SelectBox(BOOKING_CHANNELS, row[k])
      [] k = "ReferralSource" -> SelectBox(REFERRAL_SOURCES, row[k])
      [] OTHER -> safe_str_to_time(row[k])]

\* if not name or not doctor or not date or not time: a required input is
\* empty.
RequiredMissing(inputs) ==
  \E k \in {"PatientName", "DoctorName", "AppointmentDateTime"} :
    inputs[k] = None \/ inputs[k] = Text("")

\* updates = {k: v for k, v in updates.items() if v is not None}
FormUpdates(inputs) ==
  [k \in { c \in DOMAIN inputs : inputs[c] # None } |-> inputs[k]]

\* "Update Appointment" pressed on the form of a listed appointment with no
\* input changed.
SubmitEditForm ==
  /\ clock < MaxCalls
  /\ \E id \in DOMAIN appointments, stage \in Stages :
       LET inputs == FormInputs(appointments[id])
           updates == FormUpdates(inputs)
           out == IF RequiredMissing(inputs)
                  THEN [NothingToWrite(appointments) EXCEPT !.shown = "error"]
                  ELSE update_appointment(appointments, id, updates, clock + 1, stage)
       IN  /\ appointments' = out.rows
           /\ apptCall' = Call("edit", id, updates, out)
  /\ clock' = clock + 1
  /\ UNCHANGED <<nextId, loadVars, filterVars, costVars, cacheVars,
                 goalVars, schemaVars>>

NextForm == AddAppointment \/ UpdateAppointment \/ DeleteAppointment \/ SubmitEditForm

SpecForm == InitAppt /\ [][NextForm]_vars

\* C30, as claimed: submitting the edit form with every input as it was
\* pre-filled leaves every stored field of the selected appointment, and the
\* rest of the table, as it was.
C30_EditFormNoOp ==
  (apptCall.status = "done" /\ apptCall.op = "edit") =>
    appointments = apptCall.before

(***************************************************************************)
(* The costs table                                                         *)
(*                                                                         *)
(* A date object is [y, m, d]; NoDate is None (and NaT).  A text stored in *)
(* SQLite is the sequence of its bytes, and SqlNull is NULL.  The order of *)
(* the rows get_costs returns is not modelled: its result is their set.    *)
(***************************************************************************)
Date(y, m, d) == [null |-> FALSE, y |-> y, m |-> m, d |-> d]

NoDate == [null |-> TRUE, y |-> 0, m |-> 0, d |-> 0]

SqlText(bytes) == [null |-> FALSE, text |-> bytes]

SqlNull == [null |-> TRUE, text |-> <<>>]

\* The byte of the decimal digit n, and of "-".
DigitByte(n) == 48 + n

Hyphen == 45

\* The decimal digits of n, padded with zeros to the given width.
RECURSIVE Padded(_, _)
Padded(n, width) ==
  IF width = 0 THEN <<>> ELSE Padded(n \div 10, width - 1) \o <<DigitByte(n % 10)>>

\* The decimal digits of n, with no padding.
RECURSIVE Unpadded(_)
Unpadded(n) ==
  IF n < 10 THEN <<DigitByte(n)>> ELSE Unpadded(n \div 10) \o <<DigitByte(n % 10)>>

\* An ISO date written without the zeros that pad month and day.
isoformat_unpadded(date) ==
  Unpadded(date.y) \o <<Hyphen>> \o Unpadded(date.m) \o <<Hyphen>> \o Unpadded(date.d)

\* date.isoformat(): YYYY-MM-DD
isoformat(date) ==
  Padded(date.y, 4) \o <<Hyphen>> \o Padded(date.m, 2) \o <<Hyphen>> \o Padded(date.d, 2)

\* The number a sequence of digit bytes reads as.
RECURSIVE DigitsValue(_)
DigitsValue(bytes) ==
  IF bytes = <<>> THEN 0
  ELSE DigitsValue(SubSeq(bytes, 1, Len(bytes) - 1)) * 10 + (bytes[Len(bytes)] - 48)

\* The positions of the hyphens of a text.
Hyphens(bytes) == { i \in DOMAIN bytes : bytes[i] = Hyphen }

\* pd.to_datetime(text, errors='coerce').dt.date of one stored value: the
\* digits before, between and after the two hyphens; NULL gives NaT.
ParseDate(value) ==
  IF value.null \/ Cardinality(Hyphens(value.text)) # 2 THEN NoDate
  ELSE LET h1 == Min(Hyphens(value.text))
           h2 == Max(Hyphens(value.text))
       IN  Date(DigitsValue(SubSeq(value.text, 1, h1 - 1)),
                DigitsValue(SubSeq(value.text, h1 + 1, h2 - 1)),
                DigitsValue(SubSeq(value.text, h2 + 1, Len(value.text))))

\* a <= b for two texts, as SQLite compares them (byte by byte, a prefix first).
RECURSIVE TextLeq(_, _)
TextLeq(a, b) ==
  IF a = <<>> THEN TRUE
  ELSE IF b = <<>> THEN FALSE
  ELSE IF Head(a) # Head(b) THEN Head(a) < Head(b)
  ELSE TextLeq(Tail(a), Tail(b))

\* column >= ? and column <= ? of a WHERE clause: a NULL column fails both.
SqlGeq(value, bound) == ~value.null /\ TextLeq(bound, value.text)

SqlLeq(value, bound) == ~value.null /\ TextLeq(value.text, bound)

\* The row add_cost inserts, with the id the table gives it.  The field
\* given holds the arguments of the call, which no code reads: properties
\* are stated against it.
CostRow(id, expense_date, payment_date, category, item, amount) ==
  [id |-> id,
   given |-> [expense_date |-> expense_date, payment_date |-> payment_date],
   expense_date |-> SqlText(isoformat(expense_date)),
   payment_date |-> IF payment_date.null THEN SqlNull
                    ELSE SqlText(isoformat(payment_date)),
   category |-> category, item |-> item, amount |-> amount]

\* The date column get_costs filters on: an invalid name falls back.
FilterColumn(date_column) ==
  IF date_column \notin {"expense_date", "payment_date"} THEN "expense_date"
  ELSE date_column

\* CostMatches with a NULL date passing every comparison.
CostMatchesNullPasses(row, start, end, date_column) ==
  LET value == row[FilterColumn(date_column)]
  IN  \/ value.null
      \/ /\ start.null \/ SqlGeq(value, isoformat(start))
         /\ end.null \/ SqlLeq(value, isoformat(end))

\* The WHERE clause of get_costs for one stored row.
CostMatches(row, start, end, date_column) ==
  LET value == row[FilterColumn(date_column)]
  IN  /\ start.null \/ SqlGeq(value, isoformat(start))
      /\ end.null \/ SqlLeq(value, isoformat(end))

\* One row of the frame get_costs returns.
ReturnedCost(row) ==
  [id |-> row.id,
   expense_date |-> ParseDate(row.expense_date),
   payment_date |-> ParseDate(row.payment_date),
   category |-> row.category, item |-> row.item, amount |-> row.amount]

get_costs(rows, start, end, date_column) ==
  { ReturnedCost(rows[i]) :
      i \in { j \in DOMAIN rows : CostMatches(rows[j], start, end, date_column) } }

MaxCosts == 2

\* The dates the cost form is given.
CostDates ==
  {Date(2024, 1, 31), Date(2024, 2, 1), Date(2024, 2, 28), Date(2024, 10, 1)}

PaymentDates == {NoDate, Date(2024, 2, 15)}

\* The bounds a query is given: None leaves the side open.
StartBounds == {NoDate, Date(2024, 2, 1), Date(2024, 2, 28)}

EndBounds == {NoDate, Date(2024, 2, 28), Date(2024, 10, 1)}

DateColumns == {"expense_date", "payment_date", "recorded_at"}

InitCost ==
  /\ costs = <<>>
  /\ costCall = NotRun
  /\ LoadIdle /\ FilterIdle /\ ApptIdle /\ CacheIdle /\ GoalIdle /\ SchemaIdle

\* add_cost: the INSERT either commits and the call returns True, or the
\* store raises, an error is shown and the call returns False.
AddCost ==
  \E expense_date \in CostDates, payment_date \in PaymentDates, stage \in Stages :
    LET written == Append(costs, CostRow(Len(costs) + 1, expense_date,
                                         payment_date, "Rent", "Office", 500))
        out == Outcome(costs, written, TRUE, stage)
    IN
    /\ Len(costs) < MaxCosts
    /\ costs' = out.rows
    /\ costCall' = [status |-> "done", op |-> "add_cost",
                    start |-> expense_date, end |-> payment_date,
                    date_column |-> "", ok |-> out.ok, result |-> {},
                    shown |-> IF out.shown = "" THEN {} ELSE {out.shown},
                    before |-> costs, executes |-> out.executes,
                    stage |-> out.stage]
    /\ UNCHANGED <<loadVars, filterVars, apptVars, cacheVars,
                   goalVars, schemaVars>>

\* get_costs: the SELECT either returns the rows of the WHERE clause, or the
\* store raises, an error is shown and an empty frame is returned.
GetCosts ==
  \E start \in StartBounds, end \in EndBounds, date_column \in DateColumns,
     fail \in BOOLEAN :
    /\ costCall' = [status |-> "done", op |-> "get_costs",
                    start |-> start, end |-> end,
                    date_column |-> date_column, ok |-> ~fail,
                    result |-> IF fail THEN {}
                               ELSE get_costs(costs, start, end, date_column),
                    shown |-> (IF fail THEN {"error"} ELSE {})
                              \cup (IF date_column = FilterColumn(date_column)
                                    THEN {} ELSE {"warning"}),
                    before |-> costs, executes |-> 1,
                    stage |-> IF fail THEN "execute" ELSE "none"]
    /\ UNCHANGED <<costs, loadVars, filterVars, apptVars, cacheVars,
                   goalVars, schemaVars>>

NextCost == AddCost \/ GetCosts

SpecCost == InitCost /\ [][NextCost]_vars

\* a <= b for two dates.
DateLeq(a, b) ==
  \/ a.y < b.y
  \/ a.y = b.y /\ a.m < b.m
  \/ a.y = b.y /\ a.m = b.m /\ a.d <= b.d

\* The record a stored cost is expected back as: what add_cost was given.
GivenCost(row) ==
  [id |-> row.id,
   expense_date |-> row.given.expense_date,
   payment_date |-> row.given.payment_date,
   category |-> row.category, item |-> row.item, amount |-> row.amount]

\* A get_costs call on expense_date with both bounds has returned its rows.
ExpenseRangeQueried ==
  /\ costCall.status = "done" /\ costCall.op = "get_costs" /\ costCall.ok
  /\ costCall.date_column = "expense_date"
  /\ ~costCall.start.null /\ ~costCall.end.null

\* C2: after any sequence of add_cost calls, get_costs on expense_date with a
\* start and an end returns exactly the stored costs whose expense date d has
\* start <= d <= end, both bounds included, each as it was added; a cost
\* added with no payment date comes back with a null payment date.
C2_ExpenseDateRange ==
  ExpenseRangeQueried =>
    /\ costCall.result =
         { GivenCost(costs[i]) :
             i \in { j \in DOMAIN costs :
                       /\ DateLeq(costCall.start, costs[j].given.expense_date)
                       /\ DateLeq(costs[j].given.expense_date, costCall.end) } }
    /\ \A r \in costCall.result :
         costs[r.id].given.payment_date.null => r.payment_date.null

\* The example of the specification: an unpaid cost of 2024-02-01 is the one
\* record of [2024-02-01, 2024-02-28], next to a stored cost outside the range.
C2_Witness ==
  /\ ExpenseRangeQueried
  /\ costCall.start = Date(2024, 2, 1) /\ costCall.end = Date(2024, 2, 28)
  /\ Len(costs) = 2
  /\ costs[1].given = [expense_date |-> Date(2024, 2, 1), payment_date |-> NoDate]
  /\ costs[2].given.expense_date = Date(2024, 10, 1)
  /\ costCall.result =
       {[id |-> 1, expense_date |-> Date(2024, 2, 1), payment_date |-> NoDate,
         category |-> "Rent", item |-> "Office", amount |-> 500]}

\* A get_costs call has returned its rows.
CostsQueried == costCall.status = "done" /\ costCall.op = "get_costs" /\ costCall.ok

ttl == 3600

\* The latest time of the model, and the seconds that pass between events.
MaxSeconds == 7204

Waits == {1799, 1801}

\* The files: the example sheet, the same with no income, and no file.
Sheets ==
  { Workbook(ExpectedCols, <<Restrict(BaseRow, ExpectedCols)>>),
    Workbook(ExpectedCols, <<Restrict(With(BaseRow, "gross income", Num(0)), ExpectedCols)>>),
    Unreadable }

\* An entry that never expires.
FreshForever(entry, t) == entry.full

\* The entry is there and younger than ttl at time t.
Fresh(entry, t) == entry.full /\ t - entry.at < ttl

InitCache ==
  /\ source \in Sheets
  /\ loaded = NotRun
  /\ cache = NoEntry
  /\ seconds = 0
  /\ FilterIdle /\ ApptIdle /\ CostIdle /\ GoalIdle /\ SchemaIdle

\* A rerun of the script calls load_data().
CallLoadData ==
  LET hit == Fresh(cache, seconds)
      L == load_data(source)
  IN  /\ loaded' = [status |-> IF hit THEN "ok" ELSE L.status,
                    t |-> IF hit THEN cache.value ELSE L.t,
                    hit |-> hit, at |-> seconds, src |-> source, before |-> cache]
      /\ cache' = IF hit THEN cache
                  ELSE IF L.status = "ok"
                  THEN [full |-> TRUE, value |-> L.t, at |-> seconds]
                  ELSE NoEntry
      /\ UNCHANGED <<source, seconds, filterVars, apptVars, costVars,
                     goalVars, schemaVars>>

\* Time passes.
Wait ==
  /\ \E d \in Waits : seconds + d <= MaxSeconds /\ seconds' = seconds + d
  /\ UNCHANGED <<source, loaded, cache, filterVars, apptVars, costVars,
                 goalVars, schemaVars>>

\* The file on disk is replaced.
ChangeSource ==
  /\ \E sheet \in Sheets \ {source} : source' = sheet
  /\ UNCHANGED <<loaded, cache, seconds, filterVars, apptVars, costVars,
                 goalVars, schemaVars>>

NextCache == CallLoadData \/ Wait \/ ChangeSource

SpecCache == InitCache /\ [][NextCache]_vars

Number(n) == [t |-> "num", n |-> n, s |-> ""]

Day(n) == [t |-> "date", n |-> n, s |-> ""]

\* value.isoformat() if isinstance(value, date) else None
IsoOrNone(x) == IF x.t = "date" THEN [x EXCEPT !.t = "isodate"] ELSE None

\* value.isoformat() if isinstance(value, date) else value
IsoIfDate(x) == IF x.t = "date" THEN [x EXCEPT !.t = "isodate"] ELSE x

\* valid_columns of update_goal.
goal_valid_columns ==
  {"metric_name", "target_value", "time_period", "start_date", "end_date", "is_active"}

GoalNotNull == {"metric_name", "target_value", "time_period"}

\* The row add_goal inserts.
InsertedGoal(g) ==
  [c \in goal_valid_columns |->
    CASE c = "metric_name" -> g.metric_name
      [] c = "target_value" -> g.target_value
      [] c = "time_period" -> g.time_period
      [] c = "start_date" -> IsoOrNone(g.start_date)
      [] c = "end_date" -> IsoOrNone(g.end_date)
      [] c = "is_active" -> g.is_active]

\* The SET clauses of update_goal: the valid columns of updates, the dates
\* of start_date and end_date as ISO strings.
GoalClauses(updates) ==
  [k \in DOMAIN updates \cap goal_valid_columns |->
     IF k \in {"start_date", "end_date"} THEN IsoIfDate(updates[k]) ELSE updates[k]]

\* The statement breaks a NOT NULL constraint of the goals table.
GoalBreaksNotNull(values) ==
  \E c \in GoalNotNull \cap DOMAIN values : values[c] = None

\* The most goals ever stored.
MaxGoals == 2

\* The arguments of add_goal: a monthly goal, a goal over a custom range,
\* and a goal with no metric name.
MonthlyGoal ==
  [metric_name |-> Text("Total Revenue"), target_value |-> Number(50000),
   time_period |-> Text("Monthly"), start_date |-> None, end_date |-> None,
   is_active |-> Number(1)]

GoalArgs ==
  { MonthlyGoal,
    [MonthlyGoal EXCEPT !.time_period = Text("Custom Range"),
                        !.start_date = Day(10), !.end_date = Day(40)],
    [MonthlyGoal EXCEPT !.metric_name = None] }

\* The updates dicts passed to update_goal.
GoalUpdates ==
  { [k \in {"is_active"} |-> Number(0)],
    [k \in {"target_value"} |-> None],
    [k \in {"Foo"} |-> Number(1)],
    [k \in {"end_date", "id"} |-> IF k = "id" THEN Number(9) ELSE Day(50)] }

GoalCall(op, id, updates, out) ==
  [status |-> "done", op |-> op, id |-> id, updates |-> updates, ok |-> out.ok,
   shown |-> out.shown, before |-> goals, executes |-> out.executes,
   stage |-> out.stage]

AddGoal ==
  /\ Cardinality(DOMAIN goals) < MaxGoals
  /\ \E g \in GoalArgs, stage \in Stages :
       LET id == Cardinality(DOMAIN goals) + 1
           row == InsertedGoal(g)
           written == [i \in DOMAIN goals \cup {id} |->
                         IF i = id THEN row ELSE goals[i]]
           out == Outcome(goals, written, TRUE,
                          IF GoalBreaksNotNull(row) THEN "execute" ELSE stage)
       IN  /\ goals' = out.rows
           /\ goalCall' = GoalCall("add_goal", id, <<>>, out)
  /\ UNCHANGED <<loadVars, filterVars, apptVars, costVars, cacheVars, schemaVars>>

UpdateGoal ==
  /\ \E id \in 0..MaxGoals, updates \in GoalUpdates, stage \in Stages :
       LET clauses == GoalClauses(updates)
           found == id \in DOMAIN goals
           written == [i \in DOMAIN goals |->
                         IF i = id THEN UpdatedRow(goals[i], clauses) ELSE goals[i]]
           out == IF DOMAIN clauses = {} THEN NothingToWrite(goals)
                  ELSE Outcome(goals, written, found,
                               IF found /\ GoalBreaksNotNull(clauses) THEN "execute"
                               ELSE stage)
       IN  /\ goals' = out.rows
           /\ goalCall' = GoalCall("update_goal", id, updates, out)
  /\ UNCHANGED <<loadVars, filterVars, apptVars, costVars, cacheVars, schemaVars>>

(***************************************************************************)
(* SpecStore: the calls that write to the three tables, each of which may  *)
(* find the store raising in execute or in commit.  No call on one table   *)
(* reads or writes another table, so a run makes its calls on one table:   *)
(* the first call chooses it.                                              *)
(***************************************************************************)
\* No call has been made on the other two tables.
OnlyAppointments == costCall = NotRun /\ goalCall = NotRun

OnlyCosts == apptCall = NotRun /\ goalCall = NotRun

OnlyGoals == apptCall = NotRun /\ costCall = NotRun

InitStore ==
  /\ appointments = <<>> /\ clock = 0 /\ nextId = 0 /\ apptCall = NotRun
  /\ CostIdle /\ GoalIdle
  /\ LoadIdle /\ FilterIdle /\ CacheIdle /\ SchemaIdle

NextStore ==
  \/ OnlyAppointments /\ AddAppointment
  \/ OnlyAppointments /\ UpdateAppointment
  \/ OnlyAppointments /\ DeleteAppointment
  \/ OnlyCosts /\ AddCost
  \/ OnlyGoals /\ AddGoal
  \/ OnlyGoals /\ UpdateGoal

SpecStore == InitStore /\ [][NextStore]_vars

\* The last call on a table, remembered as call, found the store raising.
StoreRaised(call) == call.status = "done" /\ call.stage # "none"

FirstColumns ==
  <<"AppointmentID", "PatientName", "DoctorName", "AppointmentDateTime",
    "AppointmentType", "AppointmentStatus", "BookingDateTime",
    "CancellationDateTime", "ConfirmationStatus", "ReminderType">>

\* The columns update_schema adds, in the order of its if statements.
LaterColumns ==
  <<"BookingChannel", "ReferralSource", "PatientArrivalTime",
    "AppointmentStartTime", "AppointmentEndTime">>

Range(seq) == { seq[i] : i \in DOMAIN seq }

\* The columns of seq that are in S, in the order of seq.
Among(seq, S) ==
  LET pos == KeptPositions([i \in DOMAIN seq |-> seq[i] \in S], 1)
  IN  [j \in 1..Len(pos) |-> seq[pos[j]]]

Procs == {1, 2}

AtStart ==
  [pc |-> "pragma", columns |-> <<>>, next |-> 1, alters |-> 0, warned |-> FALSE,
   error |-> ""]

\* except sqlite3.Error as e: st.warning(...); finally: conn.close().  The
\* function then returns to its caller.
Caught(proc, e) == [proc EXCEPT !.pc = "done", !.warned = TRUE, !.error = e]

\* cursor.execute("PRAGMA table_info(appointments)"); columns = [...]
ReadColumns(p, fails) ==
  /\ procs[p].pc = "pragma"
  /\ \E fail \in fails :
       procs' = [procs EXCEPT ![p] =
                   IF fail THEN Caught(@, "OperationalError")
                   ELSE [@ EXCEPT !.pc = "alter", !.columns = schema]]
  /\ UNCHANGED <<schema, schema0>>

\* AddColumnIfMissing with the ALTER issued whatever columns holds.
AddColumnAlways(proc, cols, fail) ==
  LET name == LaterColumns[proc.next]
      after == [proc EXCEPT !.next = @ + 1,
                            !.pc = IF proc.next = Len(LaterColumns)
                                   THEN "commit" ELSE "alter"]
  IN  IF fail THEN [proc |-> Caught(proc, "OperationalError"), cols |-> cols]
      ELSE IF name \in Range(cols)
      THEN [proc |-> Caught([proc EXCEPT !.alters = @ + 1], "duplicate column name"),
            cols |-> cols]
      ELSE [proc |-> [after EXCEPT !.alters = @ + 1], cols |-> Append(cols, name)]

\* AddColumnIfMissing with each ALTER in a try block of its own: after a
\* duplicate-column error the process warns and goes on to the next column.
AddColumnCarriesOn(proc, cols, fail) ==
  LET name == LaterColumns[proc.next]
      after == [proc EXCEPT !.next = @ + 1,
                            !.pc = IF proc.next = Len(LaterColumns)
                                   THEN "commit" ELSE "alter"]
  IN  IF name \in Range(proc.columns) THEN [proc |-> after, cols |-> cols]
      ELSE IF fail THEN [proc |-> Caught(proc, "OperationalError"), cols |-> cols]
      ELSE IF name \in Range(cols)
      THEN [proc |-> [after EXCEPT !.alters = @ + 1, !.warned = TRUE,
                                   !.error = "duplicate column name"],
            cols |-> cols]
      ELSE [proc |-> [after EXCEPT !.alters = @ + 1], cols |-> Append(cols, name)]

\* if name not in columns: cursor.execute("ALTER TABLE appointments ADD
\* COLUMN name TEXT"), for the name the process has reached, the table
\* having the columns cols: the process and the columns afterwards.  The
\* ALTER of a column the table has raises "duplicate column name".
AddColumnIfMissing(proc, cols, fail) ==
  LET name == LaterColumns[proc.next]
      after == [proc EXCEPT !.next = @ + 1,
                            !.pc = IF proc.next = Len(LaterColumns)
                                   THEN "commit" ELSE "alter"]
  IN  IF name \in Range(proc.columns) THEN [proc |-> after, cols |-> cols]
      ELSE IF fail THEN [proc |-> Caught(proc, "OperationalError"), cols |-> cols]
      ELSE IF name \in Range(cols)
      THEN [proc |-> Caught([proc EXCEPT !.alters = @ + 1], "duplicate column name"),
            cols |-> cols]
      ELSE [proc |-> [after EXCEPT !.alters = @ + 1], cols |-> Append(cols, name)]

AddColumn(p, fails) ==
  /\ procs[p].pc = "alter"
  /\ \E fail \in fails :
       LET r == AddColumnIfMissing(procs[p], schema, fail)
       IN  /\ procs' = [procs EXCEPT ![p] = r.proc]
           /\ schema' = r.cols
  /\ UNCHANGED schema0

\* conn.commit(), then finally: conn.close().
Commit(p, fails) ==
  /\ procs[p].pc = "commit"
  /\ \E fail \in fails :
       procs' = [procs EXCEPT ![p] =
                   IF fail THEN Caught(@, "OperationalError")
                   ELSE [@ EXCEPT !.pc = "done"]]
  /\ UNCHANGED <<schema, schema0>>

\* The table has the first columns and any of the later ones.
InitSchema ==
  /\ \E S \in SUBSET Range(LaterColumns) :
       schema = FirstColumns \o Among(LaterColumns, S)
  /\ schema0 = schema
  /\ procs = [p \in Procs |-> AtStart]
  /\ LoadIdle /\ FilterIdle /\ ApptIdle /\ CostIdle /\ CacheIdle /\ GoalIdle

(***************************************************************************)
(* SpecSchema: update_schema run twice, one run after the other (process 2 *)
(* starts once process 1 has returned); the store may raise at any         *)
(* statement.                                                              *)
(***************************************************************************)
InTurn(p) == p = 1 \/ procs[1].pc = "done"

NextSchema ==
  /\ \E p \in Procs :
       /\ InTurn(p)
       /\ \/ ReadColumns(p, BOOLEAN)
          \/ AddColumn(p, BOOLEAN)
          \/ Commit(p, BOOLEAN)
  /\ UNCHANGED <<loadVars, filterVars, apptVars, costVars, cacheVars, goalVars>>

SpecSchema == InitSchema /\ [][NextSchema]_vars

HasLaterColumns == \A i \in DOMAIN LaterColumns : LaterColumns[i] \in Range(schema)

NextRace ==
  /\ \E p \in Procs :
       \/ ReadColumns(p, {FALSE})
       \/ AddColumn(p, {FALSE})
       \/ Commit(p, {FALSE})
  /\ UNCHANGED <<loadVars, filterVars, apptVars, costVars, cacheVars, goalVars>>

SpecRace == InitSchema /\ [][NextRace]_vars

BothDone == \A p \in Procs : procs[p].pc = "done"

\* C28: when the table lacked the five later columns and both processes
\* have finished, the table has each of the five exactly once, at most one
\* process has met a duplicate-column error, and a process that met one has
\* shown its warning and returned.
C28_RaceAddsEachOnce ==
  (schema0 = FirstColumns /\ BothDone) =>
    /\ \A i \in DOMAIN LaterColumns :
         Cardinality({ j \in DOMAIN schema : schema[j] = LaterColumns[i] }) = 1
    /\ Len(schema) = Len(FirstColumns) + Len(LaterColumns)
    /\ Cardinality({ p \in Procs : procs[p].error # "" }) <= 1
    /\ \A p \in Procs : procs[p].error # "" =>
         procs[p].error = "duplicate column name" /\ procs[p].warned

\* Both processes read the columns of a table lacking the five, process 1
\* added two columns and then met the duplicate of the third, which process
\* 2 had added: process 2 added three.
C28_Witness ==
  /\ schema0 = FirstColumns /\ BothDone
  /\ procs[1].error = "duplicate column name" /\ procs[1].alters = 3
  /\ procs[2].error = "" /\ procs[2].alters = 3

====
